---- MODULE Spec2Model ----
(***************************************************************************)
(* Message-orchestration pipeline of the support chatbot:                  *)
(* intent classification (nlu.py), safety guardrail (guard.py), the three  *)
(* pipeline paths (app._handle_message, app._handle_text_common,           *)
(* discord_integration.process_followup_task), the session table           *)
(* (state.py) and the two-phase protocol of the interactive channel.       *)
(*                                                                         *)
(* Text is modelled by TLA+ strings; str.lower, str.strip and the          *)
(* substring test are computed character by character.  Confidences are    *)
(* integers in hundredths (0.45 is 45).                                    *)
(***************************************************************************)
EXTENDS Integers, Sequences, FiniteSets, TLC

VARIABLES nluCase, guardCase, table, turn, pending, posts, acked, http, clock, storeCase,
          ragCase, racers

vars == <<nluCase, guardCase, table, turn, pending, posts, acked, http, clock, storeCase,
          ragCase, racers>>

(***************************************************************************)
(* Python string primitives                                                *)
(***************************************************************************)

\* one character of str.lower() over the ASCII letters
LowerChar(c) ==
  CASE c = "A" -> "a" [] c = "B" -> "b" [] c = "C" -> "c" [] c = "D" -> "d"
    [] c = "E" -> "e" [] c = "F" -> "f" [] c = "G" -> "g" [] c = "H" -> "h"
    [] c = "I" -> "i" [] c = "J" -> "j" [] c = "K" -> "k" [] c = "L" -> "l"
    [] c = "M" -> "m" [] c = "N" -> "n" [] c = "O" -> "o" [] c = "P" -> "p"
    [] c = "Q" -> "q" [] c = "R" -> "r" [] c = "S" -> "s" [] c = "T" -> "t"
    [] c = "U" -> "u" [] c = "V" -> "v" [] c = "W" -> "w" [] c = "X" -> "x"
    [] c = "Y" -> "y" [] c = "Z" -> "z" [] OTHER -> c

RECURSIVE Lower(_)
\* str.lower(): every character lowered, the string split in halves
Lower(s) ==
  IF Len(s) = 0 THEN ""
  ELSE IF Len(s) = 1 THEN LowerChar(s)
  ELSE LET half == Len(s) \div 2
       IN  Lower(SubSeq(s, 1, half)) \o Lower(SubSeq(s, half + 1, Len(s)))

\* the characters str.strip() removes
IsSpace(c) == c \in {" ", "\t", "\n", "\r"}

RECURSIVE LStrip(_)
LStrip(s) ==
  IF Len(s) = 0 THEN ""
  ELSE IF IsSpace(SubSeq(s, 1, 1)) THEN LStrip(SubSeq(s, 2, Len(s)))
  ELSE s

RECURSIVE RStrip(_)
RStrip(s) ==
  IF Len(s) = 0 THEN ""
  ELSE IF IsSpace(SubSeq(s, Len(s), Len(s))) THEN RStrip(SubSeq(s, 1, Len(s) - 1))
  ELSE s

\* a strip that removes one whitespace character at each end only
StripOneEach(s) ==
  LET a == IF Len(s) > 0 /\ IsSpace(SubSeq(s, 1, 1)) THEN SubSeq(s, 2, Len(s)) ELSE s
  IN  IF Len(a) > 0 /\ IsSpace(SubSeq(a, Len(a), Len(a))) THEN SubSeq(a, 1, Len(a) - 1) ELSE a

\* str.strip()
Strip(s) == RStrip(LStrip(s))

\* Python's `sub in s` for strings
Contains(s, sub) ==
  \E i \in 1..(Len(s) - Len(sub) + 1) : SubSeq(s, i, i + Len(sub) - 1) = sub

\* min() of two numbers
Min(a, b) == IF b < a THEN b ELSE a

\* the elements of a tuple
Range(f) == { f[i] : i \in DOMAIN f }

(***************************************************************************)
(* nlu.py                                                                  *)
(***************************************************************************)

FAQ_KEYWORDS == <<"jam", "harga", "layanan", "informasi", "alamat", "promo">>

ORDER_STATUS_KEYWORDS == <<"status", "nomor pesanan", "order", "resi", "pengiriman">>

\* any(keyword in normalized for keyword in keywords)
AnyKeyword(normalized, keywords) ==
  \E k \in DOMAIN keywords : Contains(normalized, keywords[k])

\* classify with the two keyword tests in the opposite order
ClassifyFaqFirst(text) ==
  LET normalized == Lower(text) IN
  IF AnyKeyword(normalized, FAQ_KEYWORDS)
    THEN [intent |-> "faq", confidence |-> 70]
  ELSE IF AnyKeyword(normalized, ORDER_STATUS_KEYWORDS)
    THEN [intent |-> "order_status", confidence |-> 85]
  ELSE [intent |-> "out_of_scope", confidence |-> 30]

\* classify with faq as the result of a text without keywords
ClassifyDefaultFaq(text) ==
  LET normalized == Lower(text) IN
  IF AnyKeyword(normalized, ORDER_STATUS_KEYWORDS)
    THEN [intent |-> "order_status", confidence |-> 85]
  ELSE [intent |-> "faq", confidence |-> 70]

classify(text) ==
  LET normalized == Lower(text) IN
  IF AnyKeyword(normalized, ORDER_STATUS_KEYWORDS)
    THEN [intent |-> "order_status", confidence |-> 85]
  ELSE IF AnyKeyword(normalized, FAQ_KEYWORDS)
    THEN [intent |-> "faq", confidence |-> 70]
  ELSE [intent |-> "out_of_scope", confidence |-> 30]

check_order_status ==
  "Fitur pengecekan status pesanan akan segera hadir. Tim kami sudah menerima permintaan Anda."

(***************************************************************************)
(* guard.py                                                                *)
(***************************************************************************)

LOW_CONFIDENCE_THRESHOLD == 45

DENYLIST_RESPONSE ==
  "Maaf, saya tidak dapat membagikan informasi tersebut. Tim kami siap membantu secara langsung bila diperlukan."

LOW_CONFIDENCE_RESPONSE ==
  "Maaf, saya belum yakin dapat menjawab pertanyaan Anda dengan tepat. Saya akan meneruskan ini ke tim layanan pelanggan kami."

\* the denylist argument left out (None); `if denylist` is false for it as for ()
NoDenylist == <<>>

_contains_denylisted_term(text, denylist) ==
  LET lowered == Lower(text) IN
  \E t \in DOMAIN denylist : Contains(lowered, Lower(denylist[t]))

\* apply with the denylist tested before the confidence substitution
ApplyDenylistFirst(answer_text, confidence, denylist) ==
  LET stripped == Strip(answer_text) IN
  IF stripped = ""
    THEN [final_text |-> LOW_CONFIDENCE_RESPONSE, escalate |-> TRUE]
  ELSE IF denylist # <<>> /\ _contains_denylisted_term(stripped, denylist)
    THEN [final_text |-> DENYLIST_RESPONSE, escalate |-> TRUE]
  ELSE IF confidence < LOW_CONFIDENCE_THRESHOLD
    THEN [final_text |-> LOW_CONFIDENCE_RESPONSE, escalate |-> TRUE]
  ELSE [final_text |-> stripped, escalate |-> FALSE]

\* apply without the early return for an empty text
ApplyKeepsEmpty(answer_text, confidence, denylist) ==
  LET stripped == Strip(answer_text)
      low   == confidence < LOW_CONFIDENCE_THRESHOLD
      text1 == IF low THEN LOW_CONFIDENCE_RESPONSE ELSE stripped
      deny  == denylist # <<>> /\ _contains_denylisted_term(text1, denylist)
  IN  [final_text |-> IF deny THEN DENYLIST_RESPONSE ELSE text1,
       escalate   |-> low \/ deny]

\* apply with the threshold comparison made inclusive
ApplyInclusiveThreshold(answer_text, confidence, denylist) ==
  LET stripped == Strip(answer_text) IN
  IF stripped = ""
    THEN [final_text |-> LOW_CONFIDENCE_RESPONSE, escalate |-> TRUE]
  ELSE
    LET low   == confidence <= LOW_CONFIDENCE_THRESHOLD
        text1 == IF low THEN LOW_CONFIDENCE_RESPONSE ELSE stripped
        deny  == denylist # <<>> /\ _contains_denylisted_term(text1, denylist)
    IN  [final_text |-> IF deny THEN DENYLIST_RESPONSE ELSE text1,
         escalate   |-> low \/ deny]

apply(answer_text, confidence, denylist) ==
  LET stripped == Strip(answer_text) IN
  IF stripped = ""
    THEN [final_text |-> LOW_CONFIDENCE_RESPONSE, escalate |-> TRUE]
  ELSE
    LET low   == confidence < LOW_CONFIDENCE_THRESHOLD
        text1 == IF low THEN LOW_CONFIDENCE_RESPONSE ELSE stripped
        deny  == denylist # <<>> /\ _contains_denylisted_term(text1, denylist)
    IN  [final_text |-> IF deny THEN DENYLIST_RESPONSE ELSE text1,
         escalate   |-> low \/ deny]

(***************************************************************************)
(* Input domains                                                           *)
(***************************************************************************)

\* texts are built from at most MaxPieces pieces
MaxPieces == 3

RECURSIVE TextsUpTo(_, _)
\* every concatenation of at most n pieces
TextsUpTo(pieces, n) ==
  IF n = 0 THEN {""}
  ELSE LET prev == TextsUpTo(pieces, n - 1)
       IN  prev \cup { t \o p : t \in prev, p \in pieces }

NluPieces == {" ", "x", "Jam", "resi", "nomor", "pesanan", "ORDER", "promo"}

NluTexts == TextsUpTo(NluPieces, MaxPieces)

GuardPieces == {" ", "\t", "ok", "otp", "Pin", "yakin"}

GuardTexts == TextsUpTo(GuardPieces, MaxPieces)

\* app.DENYLIST_TERMS
DENYLIST_TERMS == <<"nomor kartu", "password", "otp", "pin">>

GuardDenylists == {NoDenylist, DENYLIST_TERMS, <<"yakin">>, <<"OTP">>}

\* confidences, in hundredths
Confidences == {0, 30, 44, 45, 46, 70, 100}

NoGuardResult == [final_text |-> "", escalate |-> FALSE]

NoClassification == [intent |-> "none", confidence |-> 0]

IdleNluCase == [text |-> "", stage |-> "idle", result |-> NoClassification]

IdleGuardCase ==
  [text |-> "", confidence |-> 0, denylist |-> NoDenylist, stage |-> "idle",
   result |-> NoGuardResult, lower_confidence |-> 0, lower_result |-> NoGuardResult,
   again |-> NoGuardResult]

(***************************************************************************)
(* nlu.classify as a function of its input                                 *)
(***************************************************************************)

Classify ==
  /\ nluCase.stage = "input"
  /\ nluCase' = [nluCase EXCEPT !.stage = "classified", !.result = classify(nluCase.text)]
  /\ UNCHANGED <<guardCase, table, turn, pending, posts, acked, http, clock, storeCase,
                 ragCase, racers>>

(***************************************************************************)
(* guard.apply as a function of its inputs                                 *)
(***************************************************************************)

\* apply(text, confidence, denylist)
GuardApply ==
  /\ guardCase.stage = "input"
  /\ guardCase' = [guardCase EXCEPT
       !.stage = "applied",
       !.result = apply(guardCase.text, guardCase.confidence, guardCase.denylist)]
  /\ UNCHANGED <<nluCase, table, turn, pending, posts, acked, http, clock, storeCase,
                 ragCase, racers>>

\* the same text and denylist at a confidence that is not higher
GuardLower ==
  /\ guardCase.stage = "applied"
  /\ \E c \in Confidences :
       /\ c <= guardCase.confidence
       /\ guardCase' = [guardCase EXCEPT
            !.stage = "lowered",
            !.lower_confidence = c,
            !.lower_result = apply(guardCase.text, c, guardCase.denylist)]
  /\ UNCHANGED <<nluCase, table, turn, pending, posts, acked, http, clock, storeCase,
                 ragCase, racers>>

\* apply(apply(text, c).final_text, 1.0) with no denylist
GuardReapply ==
  /\ guardCase.stage = "applied"
  /\ guardCase' = [guardCase EXCEPT
       !.stage = "reapplied",
       !.again = apply(guardCase.result.final_text, 100, NoDenylist)]
  /\ UNCHANGED <<nluCase, table, turn, pending, posts, acked, http, clock, storeCase,
                 ragCase, racers>>

(***************************************************************************)
(* bedrock_client.py: the generation collaborator's response, normalised   *)
(* into a GeneratedAnswer                                                  *)
(***************************************************************************)

\* no GeneratedAnswer (bedrock_answer = None)
NoAnswer == [present |-> FALSE, answer |-> "", confidence |-> 0]

RECURSIVE HighestInSources(_, _)
\* the inner loop of answer_with_rag over one citation's sources
HighestInSources(sources, highest) ==
  IF sources = <<>> THEN highest
  ELSE LET src == Head(sources)
           h   == IF src.numeric /\ src.score > highest THEN src.score ELSE highest
       IN  HighestInSources(Tail(sources), h)

RECURSIVE HighestScore(_, _)
\* the outer loop of answer_with_rag over the citations
HighestScore(citations, highest) ==
  IF citations = <<>> THEN highest
  ELSE HighestScore(Tail(citations), HighestInSources(Head(citations), highest))

\* BedrockClient.answer_with_rag on the collaborator's response
answer_with_rag(response) ==
  LET answer_text   == Strip(response.text)
      highest_score == HighestScore(response.citations, 0)
      confidence    == IF highest_score > 0 THEN highest_score
                       ELSE IF answer_text # "" THEN 75 ELSE 0
  IN  [present |-> TRUE, answer |-> answer_text, confidence |-> confidence]

\* BedrockClient.answer_plain on the collaborator's response
answer_plain(response) ==
  [present    |-> TRUE,
   answer     |-> Strip(response.text),
   confidence |-> IF response.stop_reason = "end_turn" THEN 70 ELSE 65]

(***************************************************************************)
(* state.py: the session table                                             *)
(***************************************************************************)

SessionKeyShared(wa_id) == "user#"

\* _session_key: the partition key (the sort key is the constant "session")
_session_key(wa_id) == "user#" \o wa_id

\* SessionStore(ttl_hours=72)
SESSION_TTL_HOURS == 72

\* Python values held in `attributes`: numbers are in hundredths
PyFloat(v) == [type |-> "float", v |-> v]

PyInt(v) == [type |-> "int", v |-> v]

PyStr(v) == [type |-> "str", v |-> v]

\* decimal.Decimal, the stored form of a number
Decimal(v) == [type |-> "Decimal", v |-> v]

\* Python's == on two values: numbers compare by value whatever their type
PyEq(a, b) ==
  IF a.type \in {"float", "int"} /\ b.type \in {"float", "int"}
  THEN a.v = b.v
  ELSE a = b

\* _to_dynamodb on a scalar: `Decimal(str(value))` for a float
_to_dynamodb(value) ==
  IF value.type = "float" THEN Decimal(value.v) ELSE value

\* _from_dynamodb on a scalar: `float(value) if value % 1 else int(value)`
_from_dynamodb(value) ==
  IF value.type = "Decimal"
  THEN IF value.v % 100 # 0 THEN PyFloat(value.v) ELSE PyInt(value.v)
  ELSE value

\* the dict branch of _to_dynamodb / _from_dynamodb
_to_dynamodb_dict(d) == [key \in DOMAIN d |-> _to_dynamodb(d[key])]

_from_dynamodb_dict(d) == [key \in DOMAIN d |-> _from_dynamodb(d[key])]

\* SessionState as built by the pipeline for put_session
SessionState(wa_id, last_intent, last_reply, escalation, bedrock_confidence) ==
  [wa_id       |-> wa_id,
   last_intent |-> last_intent,
   last_reply  |-> last_reply,
   escalation  |-> escalation,
   window_24h  |-> TRUE,
   attributes  |-> [bedrock_confidence |-> PyFloat(bedrock_confidence)]]

\* the item put_session writes for a SessionState at instant `now` (in hours)
SessionItem(wa_id, data, now) ==
  [pk          |-> _session_key(wa_id),
   last_intent |-> data.last_intent,
   last_reply  |-> data.last_reply,
   escalation  |-> data.escalation,
   window_24h  |-> data.window_24h,
   attributes  |-> _to_dynamodb_dict(data.attributes),
   ttl         |-> now + SESSION_TTL_HOURS]

PutSessionMerge(tbl, wa_id, data, now) ==
  LET item == SessionItem(wa_id, data, now)
      old  == IF item.pk \in DOMAIN tbl THEN tbl[item.pk].attributes ELSE <<>>
      keys == DOMAIN old \cup DOMAIN item.attributes
      merged == [item EXCEPT !.attributes =
                   [key \in keys |-> IF key \in DOMAIN item.attributes
                                     THEN item.attributes[key] ELSE old[key]]]
  IN  [k \in DOMAIN tbl \cup {item.pk} |-> IF k = item.pk THEN merged ELSE tbl[k]]

\* SessionStore.put_session: put_item replaces the whole item under its key
put_session(tbl, wa_id, data, now) ==
  LET item == SessionItem(wa_id, data, now)
  IN  [k \in DOMAIN tbl \cup {item.pk} |-> IF k = item.pk THEN item ELSE tbl[k]]

\* get_session returns None
NoSession == [present |-> FALSE]

\* SessionStore.get_session: the item is returned as stored, whatever its ttl
get_session(tbl, wa_id) ==
  IF _session_key(wa_id) \notin DOMAIN tbl THEN NoSession
  ELSE LET item == tbl[_session_key(wa_id)]
       IN  [present     |-> TRUE,
            wa_id       |-> wa_id,
            last_intent |-> item.last_intent,
            last_reply  |-> item.last_reply,
            escalation  |-> item.escalation,
            window_24h  |-> item.window_24h,
            attributes  |-> _from_dynamodb_dict(item.attributes)]

(***************************************************************************)
(* The last operation on the session store and, per sender, the most       *)
(* recent put_session                                                      *)
(***************************************************************************)

\* the senders that use the store
StoreSenders == {"62811", "62822"}

IdleStoreCase ==
  [op      |-> "idle",                    \* put, get, tick, sweep
   wa_id   |-> "",
   result  |-> [present |-> FALSE],       \* what get_session returned
   written |-> [w \in StoreSenders |->   \* the sender's latest put_session, its
                  [present |-> FALSE,       \* instant, and every attribute key the
                   keys |-> {}]]]           \* sender ever wrote

(***************************************************************************)
(* One call of answer_with_rag: the collaborator's response and the        *)
(* RagAnswer built from it                                                 *)
(***************************************************************************)

IdleRagCase ==
  [stage    |-> "idle",                   \* called, answered
   response |-> [text |-> "", citations |-> <<>>],
   answer   |-> [present |-> FALSE]]

(***************************************************************************)
(* whatsapp.py: the delivery POST with bounded retry.  Durations are in    *)
(* hundredths of a second (0.5 s is 50).                                   *)
(***************************************************************************)

\* `attempts >= 3`
MAX_ATTEMPTS == 3

\* `backoff = 0.5`
INITIAL_BACKOFF == 50

\* the status codes requests.post returns; outcome 0 stands for a call that
\* raises (timeout, connection error)
HttpStatuses == {200, 201, 400, 401, 404, 429, 500, 502, 503}

\* no send_text call in progress
IdleHttp ==
  [pc       |-> "idle",     \* post, sleep, returned; done when send_text is left
   attempts |-> 0,
   backoff  |-> 0,
   statuses |-> <<>>,       \* status_code of each response, in order
   sleeps   |-> <<>>,       \* argument of each time.sleep, in order
   result   |-> ""]         \* ok, HTTPError (raise_for_status), RequestException

ShouldReturnUnlessError(status, attempts) ==
  status < 400 \/ attempts >= MAX_ATTEMPTS

\* `if response.status_code < 500 or attempts >= 3: return response`
ShouldReturn(status, attempts) ==
  status < 500 \/ attempts >= MAX_ATTEMPTS

\* send_text calls _http_post_with_retry: `attempts = 0; backoff = 0.5`
HttpStart ==
  /\ http.pc = "idle"
  /\ http' = [IdleHttp EXCEPT !.pc = "post", !.backoff = INITIAL_BACKOFF]
  /\ UNCHANGED <<nluCase, guardCase, table, turn, pending, posts, acked, clock, storeCase,
                 ragCase, racers>>

\* one turn of the loop up to the return test: `attempts += 1`, the POST, and
\* either `return response` or falling through to the sleep; an exception of
\* requests.post leaves both functions
HttpPost ==
  /\ http.pc = "post"
  /\ \E outcome \in HttpStatuses \cup {0} :
       LET attempts == http.attempts + 1
       IN  http' = IF outcome = 0
                   THEN [http EXCEPT !.attempts = attempts, !.pc = "done",
                                     !.result = "RequestException"]
                   ELSE [http EXCEPT !.attempts = attempts,
                                     !.statuses = Append(@, outcome),
                                     !.pc = IF ShouldReturn(outcome, attempts)
                                            THEN "returned" ELSE "sleep"]
  /\ UNCHANGED <<nluCase, guardCase, table, turn, pending, posts, acked, clock, storeCase,
                 ragCase, racers>>

\* `time.sleep(backoff); backoff *= 2`
HttpSleep ==
  /\ http.pc = "sleep"
  /\ http' = [http EXCEPT !.sleeps = Append(@, http.backoff),
                          !.backoff = @ * 2,
                          !.pc = "post"]
  /\ UNCHANGED <<nluCase, guardCase, table, turn, pending, posts, acked, clock, storeCase,
                 ragCase, racers>>

\* send_text after the helper returned: raise_for_status for a status >= 400
SendTextResult ==
  /\ http.pc = "returned"
  /\ http' = [http EXCEPT !.pc = "done",
                          !.result = IF http.statuses[Len(http.statuses)] >= 400
                                     THEN "HTTPError" ELSE "ok"]
  /\ UNCHANGED <<nluCase, guardCase, table, turn, pending, posts, acked, clock, storeCase,
                 ragCase, racers>>

(***************************************************************************)
(* The reply draft shared by the three pipeline paths                      *)
(***************************************************************************)

\* the default taken whatever the classifier returned
OrDefaultAlways(confidence) == 50

\* `float(classification["confidence"]) or 0.5`
OrDefault(confidence) == IF confidence = 0 THEN 50 ELSE confidence

\* the draft with the out_of_scope branch left out: every intent but
\* order_status goes to the generation collaborator
DraftReplyNoScopeBranch(classification, model_confidence, gen) ==
  IF classification.intent = "order_status"
    THEN [reply_text |-> check_order_status, model_confidence |-> 90,
          gen_calls |-> 0, raised |-> FALSE, bedrock_answer |-> NoAnswer]
  ELSE IF gen.raises
    THEN [reply_text |-> "", model_confidence |-> model_confidence,
          gen_calls |-> 1, raised |-> TRUE, bedrock_answer |-> NoAnswer]
  ELSE
    LET bedrock_answer == IF gen.kb_id THEN answer_with_rag(gen) ELSE answer_plain(gen)
    IN  [reply_text |-> bedrock_answer.answer,
         model_confidence |-> Min(model_confidence, bedrock_answer.confidence),
         gen_calls |-> 1, raised |-> FALSE, bedrock_answer |-> bedrock_answer]

\* the draft with the generation confidence taken alone instead of the minimum
DraftReplyGenConfidence(classification, model_confidence, gen) ==
  IF classification.intent = "order_status"
    THEN [reply_text |-> check_order_status, model_confidence |-> 90,
          gen_calls |-> 0, raised |-> FALSE, bedrock_answer |-> NoAnswer]
  ELSE IF classification.intent = "out_of_scope"
    THEN [reply_text |-> LOW_CONFIDENCE_RESPONSE, model_confidence |-> model_confidence,
          gen_calls |-> 0, raised |-> FALSE, bedrock_answer |-> NoAnswer]
  ELSE IF gen.raises
    THEN [reply_text |-> "", model_confidence |-> model_confidence,
          gen_calls |-> 1, raised |-> TRUE, bedrock_answer |-> NoAnswer]
  ELSE
    LET bedrock_answer == IF gen.kb_id THEN answer_with_rag(gen) ELSE answer_plain(gen)
    IN  [reply_text |-> bedrock_answer.answer,
         model_confidence |-> bedrock_answer.confidence,
         gen_calls |-> 1, raised |-> FALSE, bedrock_answer |-> bedrock_answer]

\* the draft with the order_status branch left out: order-status messages go
\* to the generation collaborator
DraftReplyOrderGenerates(classification, model_confidence, gen) ==
  IF classification.intent = "out_of_scope"
    THEN [reply_text |-> LOW_CONFIDENCE_RESPONSE, model_confidence |-> model_confidence,
          gen_calls |-> 0, raised |-> FALSE, bedrock_answer |-> NoAnswer]
  ELSE
    LET bedrock_answer == IF gen.kb_id THEN answer_with_rag(gen) ELSE answer_plain(gen)
    IN  [reply_text |-> bedrock_answer.answer,
         model_confidence |-> Min(model_confidence, bedrock_answer.confidence),
         gen_calls |-> 1, raised |-> FALSE, bedrock_answer |-> bedrock_answer]

\* the if/elif/else on the intent: order-status placeholder, fixed fallback,
\* or one call of the generation collaborator (answer_with_rag when a
\* knowledge base is configured, answer_plain otherwise) blended by min
DraftReply(classification, model_confidence, gen) ==
  IF classification.intent = "order_status"
    THEN [reply_text |-> check_order_status, model_confidence |-> 90,
          gen_calls |-> 0, raised |-> FALSE, bedrock_answer |-> NoAnswer]
  ELSE IF classification.intent = "out_of_scope"
    THEN [reply_text |-> LOW_CONFIDENCE_RESPONSE, model_confidence |-> model_confidence,
          gen_calls |-> 0, raised |-> FALSE, bedrock_answer |-> NoAnswer]
  ELSE IF gen.raises
    THEN [reply_text |-> "", model_confidence |-> model_confidence,
          gen_calls |-> 1, raised |-> TRUE, bedrock_answer |-> NoAnswer]
  ELSE
    LET bedrock_answer == IF gen.kb_id THEN answer_with_rag(gen) ELSE answer_plain(gen)
    IN  [reply_text |-> bedrock_answer.answer,
         model_confidence |-> Min(model_confidence, bedrock_answer.confidence),
         gen_calls |-> 1, raised |-> FALSE, bedrock_answer |-> bedrock_answer]

\* the caller's override of the guard result for out_of_scope
OverrideOutOfScope(classification, guard_result) ==
  IF classification.intent = "out_of_scope"
    THEN [final_text |-> LOW_CONFIDENCE_RESPONSE, escalate |-> TRUE]
  ELSE guard_result

(***************************************************************************)
(* One invocation of the entry point: its position, its locals, the calls  *)
(* it has made and the response it returned                                *)
(***************************************************************************)

\* no invocation in progress
IdleTurn ==
  [path             |-> "none",   \* twilio, chat, discord (Phase 1), followup (Phase 2)
   pc               |-> "idle",   \* the next step: get_session, draft, guard, send_text,
                                  \* put_session, post; done when the entry point is left
   user             |-> "",       \* sender / user_id
   text             |-> "",       \* user_text / question
   reply_to         |-> "",       \* payload.from_number
   token            |-> "",       \* interaction_token
   application_id   |-> "",
   intent           |-> "none",   \* classification["intent"]
   class_confidence |-> 0,        \* classification["confidence"]
   model_confidence |-> 0,        \* model_confidence / confidence
   session          |-> [present |-> FALSE],
   gen_calls        |-> 0,
   has_answer       |-> FALSE,    \* bedrock_answer is not None
   answer_confidence |-> 0,       \* bedrock_answer.confidence
   reply_text       |-> "",
   guard_calls      |-> 0,
   guard_denylist   |-> NoDenylist,
   decided          |-> FALSE,    \* guard_result exists
   final_text       |-> "",       \* guard_result["final_text"]
   escalate         |-> FALSE,    \* guard_result["escalate"]
   sent             |-> <<>>,     \* whatsapp.send_text calls: [to, body]
   writes           |-> <<>>,     \* items written by put_session
   post             |-> <<>>,     \* callback POSTs: [url, content, status]
   scheduled        |-> <<>>,     \* tasks handed to the asynchronous invoker
   calls            |-> <<>>,     \* collaborator calls, in order
   raised           |-> "",       \* the error that left the entry point
   caught           |-> "",       \* the error caught inside it
   status           |-> 0,        \* statusCode of the response
   body             |-> "",       \* its body (the `answer` for the chat endpoint)
   ack              |-> 0,        \* type of the interaction response
   signature        |-> "",       \* the request's signature header(s): valid, invalid, missing
   validate         |-> FALSE,    \* the channel's signature-validation setting
   parsed           |-> FALSE,    \* the form parsed into a payload
   fault            |-> "",       \* the collaborator call that failed, if one did
   request          |-> [method |-> "", route |-> ""]]
                                  \* the HTTP request, for the requests of no channel above

(***************************************************************************)
(* Two invocations that run at the same time in separate processes, each   *)
(* with its own turn; per sender, the item of the put_session that         *)
(* executed last, the invocation it came from and its channel              *)
(***************************************************************************)

\* the concurrent invocations
Invocations == {"a", "b"}

IdleRacer ==
  [t         |-> IdleTurn,
   read_from |-> "",      \* the channel that wrote the session this turn read
   replaced  |-> ""]      \* the channel that wrote the session this turn replaced

IdleRacers ==
  [running |-> [p \in Invocations |-> IdleRacer],
   started |-> 0,         \* the turns started so far
   last    |-> <<>>]

\* a response returned without entering the pipeline
Respond(path, status, body) ==
  [IdleTurn EXCEPT !.path = path, !.pc = "done", !.status = status, !.body = body]

\* the first statements of each pipeline path: classify the text and set the
\* starting confidence (`float(...)`, with `or 0.5` on two of the paths)
StartPipeline(path, user, text, or_default) ==
  LET classification == classify(text)
  IN  [IdleTurn EXCEPT
         !.path = path, !.pc = "get_session", !.user = user, !.text = text,
         !.intent = classification.intent,
         !.class_confidence = classification.confidence,
         !.model_confidence = IF or_default THEN OrDefault(classification.confidence)
                              ELSE classification.confidence,
         !.calls = <<"classify">>]

(***************************************************************************)
(* app.py: the form-encoded channel                                        *)
(***************************************************************************)

DigitValue(c) ==
  CASE c = "0" -> 0 [] c = "1" -> 1 [] c = "2" -> 2 [] c = "3" -> 3 [] c = "4" -> 4
    [] c = "5" -> 5 [] c = "6" -> 6 [] c = "7" -> 7 [] c = "8" -> 8 [] c = "9" -> 9
    [] OTHER -> -1

RECURSIVE ParseDigits(_, _)
\* the value of a string of decimal digits, -1 when it is not one
ParseDigits(s, acc) ==
  IF Len(s) = 0 THEN acc
  ELSE LET d == DigitValue(SubSeq(s, 1, 1))
       IN  IF d < 0 THEN -1 ELSE ParseDigits(SubSeq(s, 2, Len(s)), 10 * acc + d)

\* NumMedia: an integer string, 0 when missing or unparseable
ParseNumMedia(s) ==
  IF Len(s) = 0 THEN 0
  ELSE LET n == ParseDigits(s, 0) IN IF n < 0 THEN 0 ELSE n

\* the payload could not be parsed
NoPayload == [valid |-> FALSE, from_number |-> "", body |-> "", wa_id |-> "", num_media |-> 0]

\* _parse_twilio_payload on the flattened form; a field that is missing or
\* blank is "" (parse_qs drops blank values); From and Body are required
_parse_twilio_payload(form) ==
  IF form.From = "" \/ form.Body = "" THEN NoPayload
  ELSE [valid       |-> TRUE,
        from_number |-> form.From,
        body        |-> form.Body,
        wa_id       |-> form.WaId,
        num_media   |-> ParseNumMedia(form.NumMedia)]

\* _validate_twilio_signature without the test for a missing header
ValidateUnlessMissing(validate_signature, signature) ==
  IF ~validate_signature THEN TRUE
  ELSE signature # "invalid"

\* _validate_twilio_signature: the setting, then the header, then the validator
_validate_twilio_signature(validate_signature, signature) ==
  IF ~validate_signature THEN TRUE
  ELSE IF signature = "missing" THEN FALSE
  ELSE signature = "valid"

IgnoredBody == "{\"status\": \"ignored\"}"

\* _handle_message that ignores a media message only when it has no text
HandleMessageMediaWithoutText(payload) ==
  IF payload.num_media > 0 /\ payload.body = "" THEN Respond("twilio", 200, IgnoredBody)
  ELSE
    LET sender == IF payload.wa_id # "" THEN payload.wa_id ELSE payload.from_number
    IN  [StartPipeline("twilio", sender, payload.body, FALSE) EXCEPT
           !.reply_to = payload.from_number]

\* _handle_message up to the classification: media messages are ignored
_handle_message(payload) ==
  IF payload.num_media > 0 THEN Respond("twilio", 200, IgnoredBody)
  ELSE
    LET sender == IF payload.wa_id # "" THEN payload.wa_id ELSE payload.from_number
    IN  [StartPipeline("twilio", sender, payload.body, FALSE) EXCEPT
           !.reply_to = payload.from_number]

\* lambda_handler for a POST that is neither /discord nor /chat
lambda_handler_twilio(form, validate_signature, signature) ==
  LET payload == _parse_twilio_payload(form) IN
  IF ~payload.valid THEN Respond("twilio", 200, IgnoredBody)
  ELSE IF ~_validate_twilio_signature(validate_signature, signature)
    THEN Respond("twilio", 403, "Forbidden")
  ELSE _handle_message(payload)

(***************************************************************************)
(* app.py: the plain JSON chat endpoint                                    *)
(***************************************************************************)

\* _handle_text_common up to the classification
_handle_text_common(user_text, user_id) ==
  StartPipeline("chat", user_id, user_text, TRUE)

\* lambda_handler for a POST to /chat; body.text and body.user are "" when
\* missing (or when the body is not JSON)
lambda_handler_chat(body) ==
  LET text    == Strip(body.text)
      user_id == IF Strip(body.user) = "" THEN "webtester" ELSE Strip(body.user)
  IN  IF text = "" THEN Respond("chat", 400, "{\"error\": \"text is required\"}")
      ELSE _handle_text_common(text, user_id)

(***************************************************************************)
(* app.py: the requests that lambda_handler gives to no channel            *)
(***************************************************************************)

\* str.endswith
EndsWith(s, suffix) ==
  Len(suffix) <= Len(s) /\ SubSeq(s, Len(s) - Len(suffix) + 1, Len(s)) = suffix

\* secrets.verify_token, the configured verification secret
ConfiguredVerifyToken == "verify-me"

\* the test page
UiPage == "<!doctype html><meta charset='utf-8'><title>Chat Test</title>"

\* lambda_handler for a method other than POST: the test page for GET /ui,
\* 405 for everything else; the query parameters are not read
lambda_handler_other(method, route) ==
  IF EndsWith(route, "/ui") /\ method = "GET"
  THEN Respond("other", 200, UiPage)
  ELSE Respond("other", 405, "Method Not Allowed")

\* WhatsAppWebhookPayload.first_text_message over the change values of the
\* payload, in order (entries and their changes flattened)
first_text_message(values) ==
  LET texts == [i \in DOMAIN values |->
                  SelectSeq(values[i].messages,
                            LAMBDA m : m.type = "text" /\ m.body # "")]
      hits  == { i \in DOMAIN values : texts[i] # <<>> }
  IN  IF hits = {} THEN [present |-> FALSE]
      ELSE LET i == CHOOSE j \in hits : \A k \in hits : j <= k
           IN  [present |-> TRUE, from |-> texts[i][1].from, body |-> texts[i][1].body,
                value |-> i]

\* the flattened form parse_qs makes of a JSON document whose texts hold no
\* `&` and no `=`: it has no field at all
FormOfJson(values) == [From |-> "", Body |-> "", WaId |-> "", NumMedia |-> ""]

\* lambda_handler for a POST with a JSON webhook body on a path that is
\* neither /discord nor /chat: the body goes to the form parser
lambda_handler_json(values, validate_signature, signature) ==
  lambda_handler_twilio(FormOfJson(values), validate_signature, signature)

(***************************************************************************)
(* discord_integration.py: Phase 1, the interaction request                *)
(***************************************************************************)

\* _verify_discord_signature; settings.discord_public_key is "" when unset,
\* signature is "missing", "invalid" or "valid" (what VerifyKey.verify finds)
_verify_discord_signature(settings, signature) ==
  IF ~settings.discord_validate_signature THEN TRUE
  ELSE IF settings.discord_public_key = "" THEN FALSE
  ELSE IF signature = "missing" THEN FALSE
  ELSE signature = "valid"

CommandNames == {"chat", "ask"}

OptionNames == {"q", "prompt", "text", "pesan"}

RECURSIVE FirstQuestion(_)
\* the loop over the options: the value of the first option with a
\* recognised name ("" stands for None as for an empty value)
FirstQuestion(options) ==
  IF options = <<>> THEN ""
  ELSE IF Lower(Head(options).name) \in OptionNames THEN Head(options).value
  ELSE FirstQuestion(Tail(options))

\* the payload _invoke_followup_worker sends under "internal"
FollowupTask(question, user_id, interaction_token, application_id) ==
  [type              |-> "discord_followup",
   question          |-> question,
   user_id           |-> user_id,
   interaction_token |-> interaction_token,
   application_id    |-> application_id]

\* _invoke_followup_worker: the tasks handed to client.invoke (none when
\* AWS_LAMBDA_FUNCTION_NAME is unset or the call raises: both are logged
\* and swallowed)
_invoke_followup_worker(task, function_name, fault) ==
  IF function_name = "" THEN <<>>
  ELSE IF fault = "invoke" THEN <<>>
  ELSE <<task>>

InteractionResponseClassifying(t, content) ==
  [Respond("discord", 200, content) EXCEPT
     !.ack = t,
     !.intent = classify(content).intent,
     !.calls = <<"classify">>]

\* an interaction response {"type": t} with an optional content
InteractionResponse(t, content) ==
  [Respond("discord", 200, content) EXCEPT !.ack = t]

\* handle_interaction_event; req.member_user_id, req.user_id and req.token
\* are "" when the payload does not carry them
handle_interaction_event(req, settings, function_name, fault) ==
  IF ~_verify_discord_signature(settings, req.signature)
    THEN Respond("discord", 401, "invalid request signature")
  ELSE IF ~req.json_ok THEN Respond("discord", 400, "invalid json")
  ELSE IF req.type = 1 THEN InteractionResponse(1, "")
  ELSE IF req.type # 2 THEN InteractionResponse(4, "Unsupported interaction.")
  ELSE IF Lower(req.name) \notin CommandNames
    THEN InteractionResponse(4, "Gunakan perintah /chat.")
  ELSE
    LET question == FirstQuestion(req.options) IN
    IF question = "" THEN InteractionResponse(4, "Masukkan pertanyaan setelah /chat.")
    ELSE
      LET user_id == IF req.member_user_id # "" THEN req.member_user_id
                     ELSE IF req.user_id # "" THEN req.user_id
                     ELSE "anonymous"
          task == FollowupTask(question, user_id, req.token, settings.discord_app_id)
      IN  [InteractionResponse(5, "") EXCEPT
             !.user = user_id, !.text = question, !.token = req.token,
             !.application_id = settings.discord_app_id,
             !.scheduled = _invoke_followup_worker(task, function_name, fault),
             !.calls = <<"invoke">>]

(***************************************************************************)
(* discord_integration.py: Phase 2, the follow-up task                     *)
(***************************************************************************)

\* the one-time callback URL
CallbackUrl(application_id, token) ==
  "https://discord.com/api/v10/webhooks/" \o application_id \o "/" \o token

OkBody == "{\"status\": \"ok\"}"

\* process_followup_task up to the classification: without a token or an
\* application id it logs and returns
process_followup_task(task) ==
  IF task.interaction_token = "" \/ task.application_id = ""
    THEN [Respond("followup", 200, OkBody) EXCEPT
            !.user = task.user_id, !.text = task.question,
            !.token = task.interaction_token, !.application_id = task.application_id]
  ELSE [StartPipeline("followup", task.user_id, task.question, TRUE) EXCEPT
          !.token = task.interaction_token, !.application_id = task.application_id]

\* process_followup_task returned: lambda_handler answers {"status": "ok"}
FollowupReturned(t) ==
  [t EXCEPT !.pc = "done", !.status = 200, !.body = OkBody]

(***************************************************************************)
(* Requests, collaborator responses and faults                             *)
(***************************************************************************)

\* command interactions acknowledged in one run
MaxInteractions == 1

UserTexts ==
  {"halo", "tolong kirim otp saya", "Apa jam buka toko?", "status resi jam", "harga pin"}

\* a citation source with a numeric score (in hundredths), and one without
Scored(n) == [numeric |-> TRUE, score |-> n]

Unscored == [numeric |-> FALSE, score |-> 0]

Plain(text, stop_reason) ==
  [kb_id |-> FALSE, raises |-> FALSE, text |-> text, stop_reason |-> stop_reason,
   citations |-> <<>>]

Rag(text, citations) ==
  [kb_id |-> TRUE, raises |-> FALSE, text |-> text, stop_reason |-> "",
   citations |-> citations]

\* the turn does not reach the generation collaborator
NoGen == [kb_id |-> FALSE, raises |-> FALSE, text |-> "", stop_reason |-> "", citations |-> <<>>]

\* what the generation collaborator may do: settings.knowledge_base_id set or
\* not, the provider's response, or a ClientError
GenResponses ==
  { Plain("Buka 9-21", "end_turn"),
    Plain(" Buka 9-21\n", "max_tokens"),
    Plain("Kode OTP Anda 1234", "end_turn"),
    Plain("  ", "end_turn"),
    Rag("Buka 9-21", << <<Scored(90)>> >>),
    Rag("Buka 9-21", << <<Scored(80)>>, <<Scored(60), Unscored>> >>),
    Rag(" Buka 9-21\n", << <<Scored(45)>> >>),
    Rag("Buka 9-21", << <<Unscored>>, <<Scored(44)>> >>),
    Rag("Buka 9-21", << <<Unscored>> >>),
    Rag("Buka 9-21", <<>>),
    Rag("Kode OTP Anda 1234", << <<Scored(90)>> >>),
    Rag("Kode OTP Anda 1234", << <<Scored(30)>> >>),
    Rag("", <<>>),
    Rag("", << <<Scored(90)>> >>) }
  \cup
  { [kb_id |-> k, raises |-> TRUE, text |-> "", stop_reason |-> "", citations |-> <<>>] :
      k \in BOOLEAN }

\* the responses worth distinguishing for an intent: one when the draft is
\* made without the collaborator
GenFor(intent) ==
  IF intent \in {"order_status", "out_of_scope"} THEN {NoGen} ELSE GenResponses

TwilioForm(body, wa_id, num_media) ==
  [From |-> "whatsapp:+62811", Body |-> body, WaId |-> wa_id, NumMedia |-> num_media]

TwilioForms ==
  { TwilioForm(b, "62811", "0") : b \in UserTexts }
  \cup
  { TwilioForm("halo", "", ""),
    TwilioForm("Apa jam buka toko?", "62811", "2"),
    TwilioForm("status resi jam", "62811", "x"),
    TwilioForm("", "62811", "1"),
    [From |-> "", Body |-> "halo", WaId |-> "62811", NumMedia |-> "0"] }

\* a request with TWILIO_VALIDATE_SIGNATURE and its X-Twilio-Signature header
TwilioRequest(form, validate, signature) ==
  [form |-> form, validate |-> validate, signature |-> signature]

TwilioRequests ==
  { TwilioRequest(f, TRUE, "valid") : f \in TwilioForms }
  \cup
  { TwilioRequest(TwilioForm("halo", "62811", "0"), FALSE, "missing"),
    TwilioRequest(TwilioForm("halo", "62811", "0"), TRUE, "missing"),
    TwilioRequest(TwilioForm("Apa jam buka toko?", "62811", "0"), TRUE, "invalid"),
    TwilioRequest(TwilioForm("", "62811", "1"), TRUE, "invalid"),
    TwilioRequest(TwilioForm("Apa jam buka toko?", "62811", "2"), TRUE, "missing") }

ChatBodies ==
  { [text |-> t, user |-> "62811"] : t \in UserTexts }
  \cup
  { [text |-> "halo", user |-> ""],
    [text |-> "  ", user |-> "62811"],
    [text |-> "", user |-> ""],
    [text |-> " Apa jam buka toko?\n", user |-> " 62811 "] }

DiscordQuestions == {"halo", "tolong kirim otp saya", "kapan jam buka?", "status resi"}

Option(name, value) == [name |-> name, value |-> value]

Interaction(type, name, options, member_user_id, user_id, token) ==
  [signature |-> "valid", json_ok |-> TRUE, type |-> type, name |-> name,
   options |-> options, member_user_id |-> member_user_id, user_id |-> user_id,
   token |-> token]

\* the interaction requests, for the one-time token Discord issues with them
DiscordRequests(token) ==
  { Interaction(2, "chat", <<Option("q", q)>>, "62811", "", token) : q \in DiscordQuestions }
  \cup
  { Interaction(1, "", <<>>, "", "", token),
    Interaction(3, "", <<>>, "62811", "", token),
    Interaction(2, "foo", <<Option("q", "halo")>>, "62811", "", token),
    Interaction(2, "ASK", <<Option("Prompt", "kapan jam buka?")>>, "", "62811", token),
    Interaction(2, "chat", <<>>, "62811", "", token),
    Interaction(2, "chat", <<Option("q", ""), Option("text", "halo")>>, "62811", "", token),
    Interaction(2, "chat", <<Option("lang", "id"), Option("pesan", "halo")>>, "", "", token),
    [Interaction(2, "chat", <<Option("q", "halo")>>, "62811", "", token)
       EXCEPT !.signature = "invalid"],
    [Interaction(1, "", <<>>, "", "", token) EXCEPT !.signature = "missing"],
    [Interaction(0, "", <<>>, "", "", token) EXCEPT !.json_ok = FALSE],
    [Interaction(0, "", <<>>, "", "", token) EXCEPT !.json_ok = FALSE,
                                                    !.signature = "invalid"] }

\* DISCORD_VALIDATE_SIGNATURE, DISCORD_PUBLIC_KEY and DISCORD_APP_ID
DiscordSetting(validate, public_key, app_id) ==
  [discord_validate_signature |-> validate, discord_public_key |-> public_key,
   discord_app_id |-> app_id]

\* the process an interaction request runs in: its settings, its
\* AWS_LAMBDA_FUNCTION_NAME and whether client.invoke raises
DiscordEnv(settings, function_name, fault) ==
  [settings |-> settings, function_name |-> function_name, fault |-> fault]

\* a deployment with everything set
DefaultEnv == DiscordEnv(DiscordSetting(TRUE, "key", "app1"), "chatbot-fn", "none")

\* deployments with a setting missing or a failing invoke
FaultyEnvs ==
  { DiscordEnv(DiscordSetting(TRUE, "key", "app1"), "chatbot-fn", "invoke"),
    DiscordEnv(DiscordSetting(TRUE, "key", "app1"), "", "none"),
    DiscordEnv(DiscordSetting(TRUE, "key", ""), "chatbot-fn", "none"),
    DiscordEnv(DiscordSetting(TRUE, "", "app1"), "chatbot-fn", "none"),
    DiscordEnv(DiscordSetting(FALSE, "", "app1"), "chatbot-fn", "none") }

\* the interaction requests with the process each arrives in: every request
\* in the default deployment, one command in each of the others
DiscordCases(token) ==
  { [req |-> r, env |-> DefaultEnv] : r \in DiscordRequests(token) }
  \cup
  { [req |-> Interaction(2, "chat", <<Option("q", "kapan jam buka?")>>, "62811", "", token),
     env |-> e] : e \in FaultyEnvs }
  \cup
  { [req |-> [Interaction(2, "chat", <<Option("q", "halo")>>, "62811", "", token)
                EXCEPT !.signature = "invalid"],
     env |-> DiscordEnv(DiscordSetting(FALSE, "", "app1"), "chatbot-fn", "none")] }

\* the token of the n-th command interaction
Token(n) == "tok" \o ToString(n)

\* statuses of the callback POST
PostStatuses == {204, 500}

(***************************************************************************)
(* The entry point: one action per kind of request, then one per step of   *)
(* the pipeline the request entered                                        *)


(***************************************************************************)

Init ==
  /\ nluCase = IdleNluCase
  /\ guardCase = IdleGuardCase
  /\ table = <<>>
  /\ turn = IdleTurn
  /\ pending = {}
  /\ posts = <<>>
  /\ acked = <<>>
  /\ http = IdleHttp
  /\ clock = 0
  /\ storeCase = IdleStoreCase
  /\ ragCase = IdleRagCase
  /\ racers = IdleRacers

\* where lambda_handler stands after its first statements, for each
\* form-encoded request
TwilioOutcomes ==
  { [lambda_handler_twilio(req.form, req.validate, req.signature) EXCEPT
       !.signature = req.signature,
       !.validate = req.validate,
       !.parsed = _parse_twilio_payload(req.form).valid,
       !.request = [method |-> "POST", route |-> "/twilio", form |-> req.form]] :
      req \in TwilioRequests }

\* the same for each request to the chat endpoint
ChatOutcomes == { lambda_handler_chat(body) : body \in ChatBodies }

\* requests with a method other than POST, with the query parameters of a
\* verification handshake
OtherRequests ==
  { [method |-> m, route |-> r,
     query |-> [mode |-> mode, verify_token |-> token, challenge |-> "4242"]] :
      m \in {"GET", "PUT"}, r \in {"/webhook", "/ui"},
      mode \in {"subscribe", "unsubscribe"}, token \in {ConfiguredVerifyToken, "wrong"} }

OtherOutcomes ==
  { [lambda_handler_other(req.method, req.route) EXCEPT !.request = req] :
      req \in OtherRequests }

WebhookMessage(from, type, body) == [from |-> from, type |-> type, body |-> body]

\* JSON webhook bodies, as the change values they hold: a text with its
\* contact, a text without contacts, an image followed by a text, no message
JsonWebhooks ==
  { << [contacts |-> <<"62811">>,
        messages |-> <<WebhookMessage("62811", "text", "Apa jam buka toko?")>>] >>,
    << [contacts |-> <<>>,
        messages |-> <<WebhookMessage("62822", "text", "Apa jam buka toko?")>>] >>,
    << [contacts |-> <<"62811">>,
        messages |-> <<WebhookMessage("62811", "image", ""),
                       WebhookMessage("62811", "text", "harga pin")>>] >>,
    << [contacts |-> <<>>, messages |-> <<>>] >> }

JsonOutcomes ==
  { [lambda_handler_json(values, validate, "missing") EXCEPT
       !.request = [method |-> "POST", route |-> "/webhook", values |-> values],
       !.validate = validate, !.signature = "missing"] :
      values \in JsonWebhooks, validate \in BOOLEAN }

\* a request that is not a POST
OtherRequest ==
  /\ turn.pc = "idle"
  /\ turn' \in OtherOutcomes
  /\ UNCHANGED <<nluCase, guardCase, table, pending, posts, acked, http, clock, storeCase,
                 ragCase, racers>>

\* a POST that carries a JSON webhook body
JsonWebhook ==
  /\ turn.pc = "idle"
  /\ turn' \in JsonOutcomes
  /\ UNCHANGED <<nluCase, guardCase, table, pending, posts, acked, http, clock, storeCase,
                 ragCase, racers>>

\* a form-encoded webhook request
TwilioWebhook ==
  /\ turn.pc = "idle"
  /\ turn' \in TwilioOutcomes
  /\ UNCHANGED <<nluCase, guardCase, table, pending, posts, acked, http, clock, storeCase,
                 ragCase, racers>>

\* a request to the chat endpoint
ChatRequest ==
  /\ turn.pc = "idle"
  /\ turn' \in ChatOutcomes
  /\ UNCHANGED <<nluCase, guardCase, table, pending, posts, acked, http, clock, storeCase,
                 ragCase, racers>>

\* Phase 1: an interaction request; a deferred acknowledgment is recorded
\* with whether its task reached the asynchronous invoker
DiscordInteraction ==
  /\ turn.pc = "idle"
  /\ Len(acked) < MaxInteractions
  /\ \E case \in DiscordCases(Token(Len(acked) + 1)) :
       LET t == [handle_interaction_event(case.req, case.env.settings,
                                          case.env.function_name, case.env.fault)
                   EXCEPT !.signature = case.req.signature,
                          !.validate = case.env.settings.discord_validate_signature,
                          !.request = [method |-> "POST", route |-> "/discord",
                                       interaction |-> case.req]]
       IN  /\ turn' = t
           /\ pending' = pending \cup Range(t.scheduled)
           /\ acked' = IF t.ack = 5
                         THEN Append(acked, [token          |-> t.token,
                                             application_id |-> t.application_id,
                                             scheduled      |-> t.scheduled # <<>>])
                         ELSE acked
  /\ UNCHANGED <<nluCase, guardCase, table, posts, http, clock, storeCase,
                 ragCase, racers>>

\* Phase 2 starts: the asynchronous invocation delivers one scheduled task
FollowupWorker ==
  /\ turn.pc = "idle"
  /\ \E task \in pending :
       /\ turn' = process_followup_task(task)
       /\ pending' = pending \ {task}
  /\ UNCHANGED <<nluCase, guardCase, table, posts, acked, http, clock, storeCase,
                 ragCase, racers>>

\* the session read with its ClientError suppressed: the turn goes on as if
\* no record were stored
GetSessionSuppressed ==
  /\ turn.pc = "get_session"
  /\ \E ok \in BOOLEAN :
       turn' = IF ok
                 THEN [turn EXCEPT !.pc = "draft", !.calls = @ \o <<"get_session">>,
                                   !.session = get_session(table, turn.user)]
                 ELSE [turn EXCEPT !.pc = "draft", !.calls = @ \o <<"get_session">>,
                                   !.fault = "get_session"]
  /\ UNCHANGED <<nluCase, guardCase, table, pending, posts, acked, http, clock, storeCase,
                 ragCase, racers>>

\* SESSION_STORE.get_session(sender): the item, or a ClientError that leaves
\* the entry point (on the Phase 2 path the call is made before the try)
GetSession ==
  /\ turn.pc = "get_session"
  /\ \E ok \in BOOLEAN :
       turn' = IF ok
                 THEN [turn EXCEPT !.pc = "draft", !.calls = @ \o <<"get_session">>,
                                   !.session = get_session(table, turn.user)]
                 ELSE [turn EXCEPT !.pc = "done", !.calls = @ \o <<"get_session">>,
                                   !.fault = "get_session", !.raised = "ClientError"]
  /\ UNCHANGED <<nluCase, guardCase, table, pending, posts, acked, http, clock, storeCase,
                 ragCase, racers>>

\* the if/elif/else on the intent; an error of the generation collaborator
\* leaves the entry point, except on the Phase 2 path where it is caught
Draft ==
  /\ turn.pc = "draft"
  /\ \E gen \in GenFor(turn.intent) :
       LET draft == DraftReply([intent |-> turn.intent, confidence |-> turn.class_confidence],
                               turn.model_confidence, gen)
           t2 == [turn EXCEPT
                    !.gen_calls = draft.gen_calls,
                    !.calls = IF draft.gen_calls > 0 THEN @ \o <<"generate">> ELSE @]
       IN  turn' = IF ~draft.raised
                     THEN [t2 EXCEPT !.pc = "guard",
                                     !.reply_text = draft.reply_text,
                                     !.model_confidence = draft.model_confidence,
                                     !.has_answer = draft.bedrock_answer.present,
                                     !.answer_confidence = draft.bedrock_answer.confidence]
                   ELSE IF turn.path = "followup"
                     THEN FollowupReturned([t2 EXCEPT !.fault = "generate",
                                                      !.caught = "ClientError"])
                   ELSE [t2 EXCEPT !.pc = "done", !.fault = "generate",
                                   !.raised = "ClientError"]
  /\ UNCHANGED <<nluCase, guardCase, table, pending, posts, acked, http, clock, storeCase,
                 ragCase, racers>>

\* the denylist each path hands to guard.apply
PathDenylist(path) == IF path = "followup" THEN NoDenylist ELSE DENYLIST_TERMS

\* guard.apply on the draft, then the out_of_scope override
Guard ==
  /\ turn.pc = "guard"
  /\ LET denylist == PathDenylist(turn.path)
         guard_result ==
           OverrideOutOfScope([intent |-> turn.intent, confidence |-> turn.class_confidence],
                              apply(turn.reply_text, turn.model_confidence, denylist))
     IN  turn' = [turn EXCEPT
                    !.pc = IF turn.path = "twilio" THEN "send_text" ELSE "put_session",
                    !.guard_calls = 1,
                    !.guard_denylist = denylist,
                    !.decided = TRUE,
                    !.final_text = guard_result.final_text,
                    !.escalate = guard_result.escalate,
                    !.calls = @ \o <<"guard">>]
  /\ UNCHANGED <<nluCase, guardCase, table, pending, posts, acked, http, clock, storeCase,
                 ragCase, racers>>

\* the send with its delivery error suppressed: the turn goes on to the
\* session write
SendTextSuppressed ==
  /\ turn.pc = "send_text"
  /\ \E ok \in BOOLEAN :
       turn' = [turn EXCEPT
                  !.pc = "put_session",
                  !.sent = <<[to |-> turn.reply_to, body |-> turn.final_text]>>,
                  !.calls = @ \o <<"send_text">>,
                  !.fault = IF ok THEN "" ELSE "send_text"]
  /\ UNCHANGED <<nluCase, guardCase, table, pending, posts, acked, http, clock, storeCase,
                 ragCase, racers>>

\* whatsapp.send_text(payload.from_number, final_text): delivered, or an error
\* that leaves the entry point
SendText ==
  /\ turn.pc = "send_text"
  /\ \E ok \in BOOLEAN :
       LET t4 == [turn EXCEPT
                    !.sent = <<[to |-> turn.reply_to, body |-> turn.final_text]>>,
                    !.calls = @ \o <<"send_text">>]
       IN  turn' = IF ok THEN [t4 EXCEPT !.pc = "put_session"]
                   ELSE [t4 EXCEPT !.pc = "done", !.fault = "send_text",
                                   !.raised = "HTTPError"]
  /\ UNCHANGED <<nluCase, guardCase, table, pending, posts, acked, http, clock, storeCase,
                 ragCase, racers>>

TurnSessionSticky(t) ==
  SessionState(t.user, t.intent, t.final_text,
               \/ t.escalate
               \/ t.intent = "out_of_scope"
               \/ (t.session.present /\ t.session.escalation),
               IF t.has_answer THEN t.answer_confidence ELSE t.model_confidence)

\* the SessionState each path builds from the guard result
TurnSession(t) ==
  SessionState(t.user, t.intent, t.final_text,
               t.escalate \/ t.intent = "out_of_scope",
               IF t.has_answer THEN t.answer_confidence ELSE t.model_confidence)

\* SESSION_STORE.put_session(sender, session_state), then what each path does
\* next: the form channel returns OK, the chat endpoint returns the answer,
\* Phase 2 goes on to the callback POST; a ClientError leaves the entry point,
\* except on the Phase 2 path where it is caught
PutSession ==
  /\ turn.pc = "put_session"
  /\ \E ok \in BOOLEAN :
       LET session_state == TurnSession(turn)
           t5 == [turn EXCEPT !.calls = @ \o <<"put_session">>]
           t6 == [t5 EXCEPT !.writes = <<SessionItem(turn.user, session_state, clock)>>]
       IN  /\ table' = IF ok THEN put_session(table, turn.user, session_state, clock) ELSE table
           /\ turn' =
                IF ~ok
                  THEN IF turn.path = "followup"
                         THEN FollowupReturned([t5 EXCEPT !.fault = "put_session",
                                                          !.caught = "ClientError"])
                       ELSE [t5 EXCEPT !.pc = "done", !.fault = "put_session",
                                       !.raised = "ClientError"]
                ELSE IF turn.path = "twilio"
                  THEN [t6 EXCEPT !.pc = "done", !.status = 200, !.body = "OK"]
                ELSE IF turn.path = "chat"
                  THEN [t6 EXCEPT !.pc = "done", !.status = 200, !.body = turn.final_text,
                                  !.escalate = session_state.escalation]
                ELSE [t6 EXCEPT !.pc = "post"]
  /\ UNCHANGED <<nluCase, guardCase, pending, posts, acked, http, clock, storeCase,
                 ragCase, racers>>

\* one more POST counted for a URL
CountPost(counts, url) ==
  [u \in DOMAIN counts \cup {url} |->
     IF u = url THEN (IF u \in DOMAIN counts THEN counts[u] ELSE 0) + 1 ELSE counts[u]]

\* requests.post(url, json={"content": final_text}): a status (>= 300 is
\* logged), or an exception (status 0) that is caught; no retry either way
PostFollowup ==
  /\ turn.pc = "post"
  /\ \E status \in PostStatuses \cup {0} :
       LET url == CallbackUrl(turn.application_id, turn.token)
           t7  == [turn EXCEPT
                     !.post = <<[url |-> url, content |-> turn.final_text, status |-> status]>>,
                     !.calls = @ \o <<"post">>,
                     !.fault = IF status = 0 THEN "post" ELSE "",
                     !.caught = IF status = 0 THEN "RequestException" ELSE ""]
       IN  /\ turn' = FollowupReturned(t7)
           /\ posts' = CountPost(posts, url)
  /\ UNCHANGED <<nluCase, guardCase, table, pending, acked, http, clock, storeCase,
                 ragCase, racers>>

\* the invocation is over: its response was returned (or its error raised)
\* and its locals are gone
EndInvocation ==
  /\ turn.pc = "done"
  /\ turn' = IdleTurn
  /\ UNCHANGED <<nluCase, guardCase, table, pending, posts, acked, http, clock, storeCase,
                 ragCase, racers>>

Next ==
  \/ TwilioWebhook
  \/ ChatRequest
  \/ OtherRequest
  \/ JsonWebhook
  \/ DiscordInteraction
  \/ FollowupWorker
  \/ GetSession
  \/ Draft
  \/ Guard
  \/ SendText
  \/ PutSession
  \/ PostFollowup
  \/ EndInvocation

Spec == Init /\ [][Next]_vars

(***************************************************************************)
(* The pure functions on bounded inputs                                    *)
(***************************************************************************)

InitNlu ==
  /\ nluCase \in { [IdleNluCase EXCEPT !.text = t, !.stage = "input"] : t \in NluTexts }
  /\ guardCase = IdleGuardCase
  /\ table = <<>>
  /\ turn = IdleTurn
  /\ pending = {}
  /\ posts = <<>>
  /\ acked = <<>>
  /\ http = IdleHttp
  /\ clock = 0
  /\ storeCase = IdleStoreCase
  /\ ragCase = IdleRagCase
  /\ racers = IdleRacers

NextNlu == Classify

SpecNlu == InitNlu /\ [][NextNlu]_vars

InitGuard ==
  /\ nluCase = IdleNluCase
  /\ guardCase \in { [IdleGuardCase EXCEPT !.text = t, !.confidence = c, !.denylist = d,
                                           !.stage = "input"] :
                       t \in GuardTexts, c \in Confidences, d \in GuardDenylists }
  /\ table = <<>>
  /\ turn = IdleTurn
  /\ pending = {}
  /\ posts = <<>>
  /\ acked = <<>>
  /\ http = IdleHttp
  /\ clock = 0
  /\ storeCase = IdleStoreCase
  /\ ragCase = IdleRagCase
  /\ racers = IdleRacers

NextGuard ==
  \/ GuardApply
  \/ GuardLower
  \/ GuardReapply

SpecGuard == InitGuard /\ [][NextGuard]_vars


(***************************************************************************)
(* whatsapp.send_text on its own: every outcome of every POST              *)
(***************************************************************************)

InitRetry ==
  /\ nluCase = IdleNluCase
  /\ guardCase = IdleGuardCase
  /\ table = <<>>
  /\ turn = IdleTurn
  /\ pending = <<>>
  /\ posts = <<>>
  /\ acked = <<>>
  /\ http = IdleHttp
  /\ clock = 0
  /\ storeCase = IdleStoreCase
  /\ ragCase = IdleRagCase
  /\ racers = IdleRacers

NextRetry ==
  \/ HttpStart
  \/ HttpPost
  \/ HttpSleep
  \/ SendTextResult

\* the loop and send_text are straight-line code: a POST returns or raises
\* within its timeout, and a sleep returns
SpecRetry ==
  InitRetry /\ [][NextRetry]_vars /\ WF_vars(NextRetry)

(***************************************************************************)
(* The session store on its own: writes and reads by several senders as    *)
(* time passes, and the table's background deletion of expired items       *)
(***************************************************************************)

\* hours on the clock; the last instant modelled
MaxClock == 96

\* the clock advances a day at a time
TickHours == 24

\* session states that differ in every field and in the keys of `attributes`
StoreSessions(wa_id) ==
  { [wa_id |-> wa_id, last_intent |-> "faq", last_reply |-> "Jam buka 09.00",
     escalation |-> FALSE, window_24h |-> TRUE,
     attributes |-> [bedrock_confidence |-> PyFloat(75), foo |-> PyStr("bar")]],
    [wa_id |-> wa_id, last_intent |-> "order_status", last_reply |-> "Mohon tunggu",
     escalation |-> TRUE, window_24h |-> FALSE,
     attributes |-> [bedrock_confidence |-> PyFloat(100)]],
    [wa_id |-> wa_id, last_intent |-> "out_of_scope", last_reply |-> "",
     escalation |-> FALSE, window_24h |-> TRUE,
     attributes |-> <<>>] }

InitStore ==
  /\ nluCase = IdleNluCase
  /\ guardCase = IdleGuardCase
  /\ table = <<>>
  /\ turn = IdleTurn
  /\ pending = <<>>
  /\ posts = <<>>
  /\ acked = <<>>
  /\ http = IdleHttp
  /\ clock = 0
  /\ storeCase = IdleStoreCase
  /\ ragCase = IdleRagCase
  /\ racers = IdleRacers

\* store.put_session(wa_id, data)
StorePut ==
  /\ \E wa_id \in StoreSenders : \E data \in StoreSessions(wa_id) :
       /\ table' = put_session(table, wa_id, data, clock)
       /\ storeCase' = [op |-> "put", wa_id |-> wa_id, result |-> NoSession,
                        written |-> [storeCase.written EXCEPT
                                       ![wa_id] = [present |-> TRUE, data |-> data,
                                                   at |-> clock,
                                                   keys |-> @.keys \cup DOMAIN data.attributes]]]
  /\ UNCHANGED <<nluCase, guardCase, turn, pending, posts, acked, http, clock,
                 ragCase, racers>>

\* store.get_session(wa_id)
StoreGet ==
  /\ \E wa_id \in StoreSenders :
       storeCase' = [storeCase EXCEPT !.op = "get", !.wa_id = wa_id,
                                      !.result = get_session(table, wa_id)]
  /\ UNCHANGED <<nluCase, guardCase, table, turn, pending, posts, acked, http, clock,
                 ragCase, racers>>

\* time passes
Tick ==
  /\ clock + TickHours <= MaxClock
  /\ clock' = clock + TickHours
  /\ storeCase' = [storeCase EXCEPT !.op = "tick", !.wa_id = "", !.result = NoSession]
  /\ UNCHANGED <<nluCase, guardCase, table, turn, pending, posts, acked, http,
                 ragCase, racers>>

\* an item's ttl instant has passed
Expired(item, now) == item.ttl < now

\* the table's time-to-live process deletes an expired item, some time after
\* it expired
TtlSweep ==
  /\ \E k \in DOMAIN table :
       /\ Expired(table[k], clock)
       /\ table' = [j \in DOMAIN table \ {k} |-> table[j]]
  /\ storeCase' = [storeCase EXCEPT !.op = "sweep", !.wa_id = "", !.result = NoSession]
  /\ UNCHANGED <<nluCase, guardCase, turn, pending, posts, acked, http, clock,
                 ragCase, racers>>

NextStore ==
  \/ StorePut
  \/ StoreGet
  \/ Tick
  \/ TtlSweep

SpecStore == InitStore /\ [][NextStore]_vars

(***************************************************************************)
(* Concurrent turns: each invocation reads the session, works on its own   *)
(* locals, and later writes the session; the table is all they share       *)
(***************************************************************************)

\* the most turns the two invocations start between them
MaxTurns == 3

\* the texts of the concurrent turns: out_of_scope and faq
RaceTexts == {"halo", "Apa jam buka toko?"}

\* where each invocation stands after classification, by channel: the form
\* channel, the chat endpoint for two users, the Phase 2 worker
RaceTurns ==
  { lambda_handler_twilio(TwilioForm(b, "62811", "0"), TRUE, "valid") : b \in RaceTexts }
  \cup
  { lambda_handler_chat([text |-> b, user |-> "62811"]) : b \in RaceTexts }
  \cup
  { lambda_handler_chat([text |-> "halo", user |-> "62822"]),
    process_followup_task(FollowupTask("status resi", "62811", "tok1", "app1")) }

\* the generation collaborator's responses during the race
RaceGens(intent) ==
  IF intent \in {"order_status", "out_of_scope"} THEN {NoGen}
  ELSE {Rag("Buka 9-21", << <<Scored(90)>> >>)}

\* the locals of a turn after the intent branch, guard.apply and the override
Decided(t, gen) ==
  LET classification == [intent |-> t.intent, confidence |-> t.class_confidence]
      draft        == DraftReply(classification, t.model_confidence, gen)
      guard_result == OverrideOutOfScope(classification,
                        apply(draft.reply_text, draft.model_confidence,
                              PathDenylist(t.path)))
  IN  [t EXCEPT !.pc = "put_session",
                !.reply_text = draft.reply_text,
                !.model_confidence = draft.model_confidence,
                !.gen_calls = draft.gen_calls,
                !.has_answer = draft.bedrock_answer.present,
                !.answer_confidence = draft.bedrock_answer.confidence,
                !.decided = TRUE,
                !.final_text = guard_result.final_text,
                !.escalate = guard_result.escalate]

InitRace ==
  /\ nluCase = IdleNluCase
  /\ guardCase = IdleGuardCase
  /\ table = <<>>
  /\ turn = IdleTurn
  /\ pending = {}
  /\ posts = <<>>
  /\ acked = <<>>
  /\ http = IdleHttp
  /\ clock = 0
  /\ storeCase = IdleStoreCase
  /\ ragCase = IdleRagCase
  /\ racers = IdleRacers

\* an invocation starts: the request is parsed and the text classified
RaceStart(p) ==
  /\ racers.running[p].t.pc = "idle"
  /\ racers.started < MaxTurns
  /\ \E t \in RaceTurns :
       racers' = [racers EXCEPT !.running[p] = [IdleRacer EXCEPT !.t = t],
                                !.started = @ + 1]
  /\ UNCHANGED <<nluCase, guardCase, table, turn, pending, posts, acked, http, clock,
                 storeCase, ragCase>>

\* SESSION_STORE.get_session(sender), then the steps on the invocation's own
\* locals up to the session write
RaceGetSession(p) ==
  LET r == racers.running[p] IN
  /\ r.t.pc = "get_session"
  /\ \E gen \in RaceGens(r.t.intent) :
       racers' = [racers EXCEPT !.running[p] =
                    [r EXCEPT
                       !.t = Decided([r.t EXCEPT !.session = get_session(table, r.t.user)],
                                     gen),
                       !.read_from = IF r.t.user \in DOMAIN racers.last
                                       THEN racers.last[r.t.user].channel ELSE ""]]
  /\ UNCHANGED <<nluCase, guardCase, table, turn, pending, posts, acked, http, clock,
                 storeCase, ragCase>>

\* SESSION_STORE.put_session(sender, session_state)
RacePutSession(p) ==
  LET r == racers.running[p]
      session_state == TurnSession(r.t)
      item == SessionItem(r.t.user, session_state, clock)
  IN
  /\ r.t.pc = "put_session"
  /\ table' = put_session(table, r.t.user, session_state, clock)
  /\ racers' =
       [running |-> [racers.running EXCEPT ![p] =
                       [r EXCEPT !.t = [r.t EXCEPT !.pc = "done", !.writes = <<item>>],
                                 !.replaced = IF r.t.user \in DOMAIN racers.last
                                                THEN racers.last[r.t.user].channel
                                              ELSE ""]],
        started |-> racers.started,
        last    |-> [u \in DOMAIN racers.last \cup {r.t.user} |->
                       IF u = r.t.user
                         THEN [item |-> item, by |-> p, channel |-> r.t.path]
                       ELSE racers.last[u]]]
  /\ UNCHANGED <<nluCase, guardCase, turn, pending, posts, acked, http, clock,
                 storeCase, ragCase>>

\* the invocation returns; its process serves the next request
RaceEnd(p) ==
  /\ racers.running[p].t.pc = "done"
  /\ racers' = [racers EXCEPT !.running[p] = IdleRacer]
  /\ UNCHANGED <<nluCase, guardCase, table, turn, pending, posts, acked, http, clock,
                 storeCase, ragCase>>

NextRace ==
  \E p \in Invocations :
    \/ RaceStart(p)
    \/ RaceGetSession(p)
    \/ RacePutSession(p)
    \/ RaceEnd(p)

SpecRace == InitRace /\ [][NextRace]_vars

(***************************************************************************)
(* bedrock_client.py: answer_with_rag on the collaborator's responses      *)
(***************************************************************************)

\* the most citations in one response
MaxCitations == 2

\* the sources of one citation: none, without a numeric score, with one, with
\* a score of 0
RagCitations ==
  { <<>>,
    <<Unscored>>,
    <<Scored(80)>>,
    <<Scored(60), Unscored>>,
    <<Scored(60), Scored(80)>>,
    <<Scored(0)>> }

\* output.text of the response
RagTexts == {"", "Buka 9-21", " Buka 9-21\n"}

RagResponses ==
  { Rag(text, citations) :
      text \in RagTexts,
      citations \in UNION { [1..n -> RagCitations] : n \in 0..MaxCitations } }

InitRag ==
  /\ nluCase = IdleNluCase
  /\ guardCase = IdleGuardCase
  /\ table = <<>>
  /\ turn = IdleTurn
  /\ pending = {}
  /\ posts = <<>>
  /\ acked = <<>>
  /\ http = IdleHttp
  /\ clock = 0
  /\ storeCase = IdleStoreCase
  /\ racers = IdleRacers
  /\ \E response \in RagResponses :
       ragCase = [IdleRagCase EXCEPT !.stage = "called", !.response = response]

\* answer_with_rag returns the RagAnswer
AnswerWithRag ==
  /\ ragCase.stage = "called"
  /\ ragCase' = [ragCase EXCEPT !.stage = "answered",
                                !.answer = answer_with_rag(ragCase.response)]
  /\ UNCHANGED <<nluCase, guardCase, table, turn, pending, posts, acked, http, clock,
                 storeCase, racers>>

NextRag == AnswerWithRag

SpecRag == InitRag /\ [][NextRag]_vars

(***************************************************************************)
(* Properties                                                              *)
(***************************************************************************)

\* the texts an invocation has handed to a channel for the user: bodies of
\* send_text calls, contents of callback POSTs, the chat endpoint's answer
Delivered(t) ==
  { t.sent[i].body : i \in DOMAIN t.sent }
  \cup { t.post[i].content : i \in DOMAIN t.post }
  \cup (IF t.path = "chat" /\ t.pc = "done" /\ t.status = 200 /\ t.decided
          THEN {t.body} ELSE {})

\* the texts that enter the pipeline
InboundTexts ==
  UserTexts \cup DiscordQuestions \cup { Strip(body.text) : body \in ChatBodies }

\* those that contain a term of the application's denylist
DenylistedInbound ==
  { t \in InboundTexts : _contains_denylisted_term(t, DENYLIST_TERMS) }

\* those that contain none of the classifier's keywords
KeywordlessInbound ==
  { t \in InboundTexts : /\ ~AnyKeyword(Lower(t), ORDER_STATUS_KEYWORDS)
                         /\ ~AnyKeyword(Lower(t), FAQ_KEYWORDS) }

\* the generated answers, trimmed
Answers == { Strip(gen.text) : gen \in GenResponses }

\* those that are non-empty and contain no term of the application's denylist
CleanAnswers ==
  { a \in Answers : a # "" /\ ~_contains_denylisted_term(a, DENYLIST_TERMS) }

\* those that contain a term of the application's denylist
DenylistedAnswers ==
  { a \in Answers : _contains_denylisted_term(a, DENYLIST_TERMS) }

\* C1: for a text classified out_of_scope, on each of the three pipeline
\* paths, the generation collaborator is not called, the guard result after
\* the override is the low-confidence fallback with escalate true, every text
\* delivered is that fallback, and the session item written has escalation.
C1_OutOfScopeOverride ==
  (turn.path \in {"twilio", "chat", "followup"} /\ turn.intent = "out_of_scope") =>
    /\ turn.gen_calls = 0
    /\ turn.decided => (turn.final_text = LOW_CONFIDENCE_RESPONSE /\ turn.escalate)
    /\ \A d \in Delivered(turn) : d = LOW_CONFIDENCE_RESPONSE
    /\ \A i \in DOMAIN turn.writes : turn.writes[i].escalation
    /\ (turn.writes # <<>> /\ _session_key(turn.user) \in DOMAIN table) =>
         table[_session_key(turn.user)].escalation

\* C1 witness: an out_of_scope question reached the callback POST of Phase 2
\* after the session item was written
C1_Witness ==
  /\ turn.path = "followup" /\ turn.intent = "out_of_scope"
  /\ turn.post # <<>> /\ turn.writes # <<>>
  /\ turn.post[1].content = LOW_CONFIDENCE_RESPONSE

\* C2: on every channel a generated answer that contains a denylisted term is
\* never delivered: what is delivered is a fixed fallback and the turn is
\* escalated.
C2_DenylistedAnswerNeverDelivered ==
  (turn.gen_calls = 1 /\ turn.reply_text \in DenylistedAnswers) =>
    \A d \in Delivered(turn) :
      d \in {DENYLIST_RESPONSE, LOW_CONFIDENCE_RESPONSE} /\ turn.escalate

\* C2 failing state: Phase 2 posted a generated answer carrying "otp"
C2_Witness ==
  /\ turn.path = "followup"
  /\ turn.post # <<>>
  /\ turn.post[1].content = "Kode OTP Anda 1234"
  /\ ~turn.escalate

\* C3 as stated: whenever the trimmed answer contains a term of a non-empty
\* denylist, apply returns the denylist fallback and escalates, at every
\* confidence.
C3_DenylistAtEveryConfidence ==
  (/\ guardCase.stage = "applied"
   /\ guardCase.denylist # <<>>
   /\ _contains_denylisted_term(Strip(guardCase.text), guardCase.denylist)) =>
    guardCase.result = [final_text |-> DENYLIST_RESPONSE, escalate |-> TRUE]

\* C3: whenever the trimmed answer contains a term of a non-empty denylist,
\* apply escalates and never returns the answer: it returns the denylist
\* fallback when the confidence is at least 0.45, and below 0.45 the
\* low-confidence fallback (the denylist fallback only when the low-confidence
\* fallback itself contains a denylisted term).
C3_DenylistAfterConfidence ==
  (/\ guardCase.stage = "applied"
   /\ guardCase.denylist # <<>>
   /\ _contains_denylisted_term(Strip(guardCase.text), guardCase.denylist)) =>
    /\ guardCase.result.escalate
    /\ guardCase.result.final_text =
         IF guardCase.confidence >= 45
            \/ _contains_denylisted_term(LOW_CONFIDENCE_RESPONSE, guardCase.denylist)
           THEN DENYLIST_RESPONSE
         ELSE LOW_CONFIDENCE_RESPONSE

\* C3 witness: "otp" at confidence 0.30 with the application's denylist comes
\* back as the low-confidence fallback
C3_Witness ==
  /\ guardCase.stage = "applied"
  /\ guardCase.denylist = DENYLIST_TERMS
  /\ _contains_denylisted_term(Strip(guardCase.text), guardCase.denylist)
  /\ guardCase.confidence < 45
  /\ guardCase.result = [final_text |-> LOW_CONFIDENCE_RESPONSE, escalate |-> TRUE]

\* C4 as stated: for an inbound text that contains a denylisted term the
\* pipeline ends with the denylist fallback and escalate true.
C4_InboundDenylistedTerm ==
  (/\ turn.path \in {"twilio", "chat", "followup"}
   /\ turn.decided
   /\ turn.text \in DenylistedInbound) =>
    (turn.final_text = DENYLIST_RESPONSE /\ turn.escalate)

\* C4: the denylist is applied to the drafted reply, not to the inbound text.
\* An inbound text with a denylisted term and no classifier keyword ends with
\* the low-confidence fallback, escalate true and no generation call; on the
\* form and chat paths the result is the denylist fallback exactly when the
\* text has a classifier keyword, the blended confidence is at least 0.45 and
\* the drafted reply itself contains a denylisted term.
C4_DenylistOnDraftOnly ==
  (/\ turn.path \in {"twilio", "chat", "followup"}
   /\ turn.decided
   /\ turn.text \in DenylistedInbound) =>
    /\ turn.text \in KeywordlessInbound =>
         /\ turn.final_text = LOW_CONFIDENCE_RESPONSE
         /\ turn.escalate
         /\ turn.gen_calls = 0
    /\ turn.path \in {"twilio", "chat"} =>
         (turn.final_text = DENYLIST_RESPONSE <=>
            /\ turn.text \notin KeywordlessInbound
            /\ turn.model_confidence >= 45
            /\ turn.reply_text \in DenylistedAnswers)

\* C4 witness: "tolong kirim otp saya" was answered on the form channel with
\* the low-confidence fallback
C4_Witness ==
  /\ turn.path = "twilio"
  /\ turn.text = "tolong kirim otp saya"
  /\ turn.sent # <<>>
  /\ turn.sent[1].body = LOW_CONFIDENCE_RESPONSE
  /\ turn.escalate

\* C5: for a faq text the confidence handed to guard.apply is
\* min(0.70, generation confidence); when the generated answer is non-empty
\* after trimming and has no denylisted term, the result is the trimmed answer
\* without escalation exactly when that minimum is at least 0.45, and the
\* low-confidence fallback with escalation otherwise.
C5_FaqConfidenceIsMin ==
  (turn.intent = "faq" /\ turn.decided) =>
    LET blended == Min(70, turn.answer_confidence)
    IN  /\ turn.has_answer
        /\ turn.model_confidence = blended
        /\ turn.reply_text \in CleanAnswers =>
             /\ turn.escalate <=> blended < 45
             /\ turn.final_text = IF blended >= 45 THEN turn.reply_text
                                  ELSE LOW_CONFIDENCE_RESPONSE
             /\ \A d \in Delivered(turn) : d = turn.final_text

\* C5 witness: "Apa jam buka toko?" answered "Buka 9-21" at 0.9 is sent
\* unchanged at confidence 0.70, not escalated
C5_Witness ==
  /\ turn.path = "twilio"
  /\ turn.text = "Apa jam buka toko?"
  /\ turn.answer_confidence = 90
  /\ turn.model_confidence = 70
  /\ turn.sent # <<>>
  /\ turn.sent[1].body = "Buka 9-21"
  /\ ~turn.escalate

\* C6: classify always returns, and returns one of three pairs: order_status
\* whenever the lower-cased text has an order-tracking keyword (even with a
\* FAQ keyword), faq with a FAQ keyword and no order-tracking keyword,
\* out_of_scope otherwise.
C6_ClassifyTotalOrderSensitive ==
  /\ nluCase.stage \in {"input", "classified"}
  /\ nluCase.stage = "classified" =>
       LET normalized == Lower(nluCase.text)
           order == \E k \in DOMAIN ORDER_STATUS_KEYWORDS :
                      Contains(normalized, ORDER_STATUS_KEYWORDS[k])
           faq   == \E k \in DOMAIN FAQ_KEYWORDS : Contains(normalized, FAQ_KEYWORDS[k])
       IN  nluCase.result =
             IF order THEN [intent |-> "order_status", confidence |-> 85]
             ELSE IF faq THEN [intent |-> "faq", confidence |-> 70]
             ELSE [intent |-> "out_of_scope", confidence |-> 30]

\* C6 witness: a text with both an order-tracking and a FAQ keyword was
\* classified order_status
C6_Witness ==
  /\ nluCase.stage = "classified"
  /\ Contains(Lower(nluCase.text), "resi")
  /\ Contains(Lower(nluCase.text), "jam")
  /\ nluCase.result.intent = "order_status"

\* the guarded text is non-empty after trimming and has no denylisted term
PlainGuardText ==
  /\ Strip(guardCase.text) # ""
  /\ ~_contains_denylisted_term(Strip(guardCase.text), guardCase.denylist)

\* C7: for a text that is non-empty after trimming and has no denylisted
\* term, apply escalates exactly when the confidence is below 0.45; so at a
\* confidence that is not higher, an escalation stays an escalation.
C7_GuardMonotone ==
  /\ (guardCase.stage \in {"applied", "lowered", "reapplied"} /\ PlainGuardText) =>
       (guardCase.result.escalate <=> guardCase.confidence < 45)
  /\ (guardCase.stage = "lowered" /\ PlainGuardText) =>
       /\ guardCase.lower_result.escalate <=> guardCase.lower_confidence < 45
       /\ guardCase.result.escalate => guardCase.lower_result.escalate

\* C7 witness: the same text does not escalate at exactly 0.45 and escalates
\* at 0.44
C7_Witness ==
  /\ guardCase.stage = "lowered"
  /\ PlainGuardText
  /\ guardCase.confidence = 45 /\ ~guardCase.result.escalate
  /\ guardCase.lower_confidence = 44 /\ guardCase.lower_result.escalate

\* C8: with no denylist, applying the guard at confidence 1.0 to the final
\* text of a first application returns that final text.
C8_GuardIdempotent ==
  (guardCase.stage = "reapplied" /\ guardCase.denylist = NoDenylist) =>
    guardCase.again.final_text = guardCase.result.final_text

\* C8 witness: the first application trimmed whitespace and the second
\* returned the trimmed text
C8_Witness ==
  /\ guardCase.stage = "reapplied"
  /\ guardCase.denylist = NoDenylist
  /\ guardCase.result.final_text # guardCase.text
  /\ guardCase.result.final_text # LOW_CONFIDENCE_RESPONSE
  /\ guardCase.again.final_text = guardCase.result.final_text

\* C9: whenever Phase 1 returns the deferred acknowledgment, a follow-up task
\* with the question, user id, token and application id has been handed to
\* the asynchronous invoker.
C9_DeferredAckImpliesScheduled ==
  (turn.path = "discord" /\ turn.ack = 5) =>
    turn.scheduled =
      <<FollowupTask(turn.text, turn.user, turn.token, turn.application_id)>>

\* C9 failing state: the deferred acknowledgment was returned and nothing was
\* scheduled
C9_Witness ==
  /\ turn.path = "discord" /\ turn.pc = "done"
  /\ turn.ack = 5
  /\ turn.scheduled = <<>>

\* C10: a Phase 2 execution that ends without a collaborator error has issued
\* exactly one POST, to the callback URL of its application id and token,
\* with the final text as content.
C10_FollowupPostsOnce ==
  (/\ turn.path = "followup" /\ turn.pc = "done"
   /\ turn.raised = "" /\ turn.caught = "") =>
    /\ Len(turn.post) = 1
    /\ turn.post[1].url = CallbackUrl(turn.application_id, turn.token)
    /\ turn.post[1].content = turn.final_text

\* C10 failing state: Phase 2 of an acknowledged command ended without a
\* collaborator error and without a POST
C10_Witness ==
  /\ turn.path = "followup" /\ turn.pc = "done"
  /\ turn.raised = "" /\ turn.caught = ""
  /\ acked # <<>> /\ acked[1].scheduled /\ acked[1].token = turn.token
  /\ turn.token # ""
  /\ turn.post = <<>>

\* C11: no exception escapes Phase 2: whichever step raises, the internal
\* invocation ends with status ok, and a failure before the callback POST
\* leaves no POST.
C11_FollowupErrorsCaught ==
  turn.path = "followup" =>
    /\ turn.raised = ""
    /\ turn.pc = "done" => (turn.status = 200 /\ turn.body = OkBody)
    /\ turn.caught = "ClientError" => turn.post = <<>>

\* C11 failing state: the session read of Phase 2 raised and the error left
\* the entry point
C11_Witness ==
  /\ turn.path = "followup" /\ turn.pc = "done"
  /\ turn.calls = <<"classify", "get_session">>
  /\ turn.raised = "ClientError"
  /\ turn.status = 0

\* the invocation touched nothing: no session read or write, no generation
\* call, no outbound send, no callback POST and no task scheduling
NoSideEffect(t) ==
  /\ t.pc = "done"
  /\ t.calls = <<>>
  /\ t.gen_calls = 0
  /\ t.sent = <<>>
  /\ t.writes = <<>>
  /\ t.post = <<>>
  /\ t.scheduled = <<>>

\* the request came with validation enabled and a missing or invalid signature
BadSignature(t) == t.validate /\ t.signature \in {"missing", "invalid"}

\* C12 as stated: with validation enabled a form-channel request with a
\* missing or invalid signature is answered 403 and an interactive-channel
\* one 401, whatever the payload, without any side effect.
C12_UnsignedAlwaysDenied ==
  BadSignature(turn) =>
    /\ turn.path = "twilio" => turn.status = 403
    /\ turn.path = "discord" => turn.status = 401
    /\ NoSideEffect(turn)

\* C12: with validation enabled, a request with a missing or invalid
\* signature has no side effect; on the interactive channel it is answered
\* 401 whatever the payload; on the form channel it is answered 403 when the
\* form parses into a payload, and 200 "ignored" when it does not (the parse
\* comes before the signature test).
C12_UnsignedDeniedOrIgnored ==
  BadSignature(turn) =>
    /\ turn.path = "twilio" =>
         IF turn.parsed THEN turn.status = 403 /\ turn.body = "Forbidden"
         ELSE turn.status = 200 /\ turn.body = IgnoredBody
    /\ turn.path = "discord" => (turn.status = 401 /\ turn.ack = 0)
    /\ NoSideEffect(turn)

\* C12 witness: an unsigned form request without a message body was answered
\* 200 "ignored"
C12_Witness ==
  /\ turn.path = "twilio"
  /\ BadSignature(turn)
  /\ ~turn.parsed
  /\ turn.status = 200 /\ turn.body = IgnoredBody

\* C13 as stated: a storage error of get_session or put_session leaves the
\* entry point on every path.
C13_StorageErrorPropagates ==
  turn.fault \in {"get_session", "put_session"} =>
    (turn.raised = "ClientError" /\ turn.caught = "" /\ turn.status = 0)

\* C13: a storage error of get_session leaves the entry point on every path,
\* and so does one of put_session on the form channel and the chat endpoint;
\* in Phase 2 an error of put_session is caught: the invocation ends with
\* status ok and without a callback POST.
C13_StorageErrorPropagatesOrCaught ==
  turn.fault \in {"get_session", "put_session"} =>
    IF turn.path = "followup" /\ turn.fault = "put_session"
      THEN /\ turn.raised = "" /\ turn.caught = "ClientError"
           /\ turn.status = 200 /\ turn.body = OkBody
           /\ turn.post = <<>>
    ELSE turn.raised = "ClientError" /\ turn.caught = "" /\ turn.status = 0

\* C13 witness: the session write of Phase 2 failed and the invocation ended
\* with status ok
C13_Witness ==
  /\ turn.path = "followup"
  /\ turn.fault = "put_session"
  /\ turn.raised = ""
  /\ turn.status = 200

\* C14: when the generation collaborator fails, or send_text fails on the
\* form channel, the request writes no session item and the sender's stored
\* record is the one read at the start of the request.
C14_NoWriteAfterFailure ==
  turn.fault \in {"generate", "send_text"} =>
    /\ turn.writes = <<>>
    /\ get_session(table, turn.user) = turn.session

\* C14 witness: send_text failed for a sender with a stored record, which is
\* still the stored record
C14_Witness ==
  /\ turn.path = "twilio"
  /\ turn.fault = "send_text" /\ turn.raised = "HTTPError"
  /\ turn.session.present
  /\ get_session(table, turn.user) = turn.session

RECURSIVE Pow2(_)
\* 2^n
Pow2(n) == IF n = 0 THEN 1 ELSE 2 * Pow2(n - 1)

\* what holds of the retry loop at every step
RetryShape ==
  LET n == Len(http.statuses)
  IN  /\ http.attempts \in 0..MAX_ATTEMPTS
      /\ http.pc \in {"sleep", "returned"} => http.attempts = n /\ n >= 1
      /\ http.pc = "post" => http.attempts = n /\ n < MAX_ATTEMPTS
      \* every attempt but the last returned a 5xx status and was followed by a sleep
      /\ \A k \in 1..(n - 1) : http.statuses[k] >= 500
      /\ http.pc \in {"post", "sleep"} => \A k \in 1..n : http.statuses[k] >= 500
      /\ Len(http.sleeps) = (IF http.pc \in {"post", "idle"} \/ n = 0 THEN n
                             ELSE IF http.result = "RequestException" THEN n
                             ELSE n - 1)
      /\ \A k \in DOMAIN http.sleeps : http.sleeps[k] = INITIAL_BACKOFF * Pow2(k - 1)
      \* at the end: 1 to 3 attempts, and the outcome of send_text
      /\ http.pc = "done" =>
           /\ http.attempts \in 1..MAX_ATTEMPTS
           /\ http.result \in {"ok", "HTTPError", "RequestException"}
           /\ http.result = "RequestException" => http.attempts = n + 1
           /\ http.result = "HTTPError" => http.attempts = n /\ http.statuses[n] >= 400
           /\ http.result = "ok" => http.attempts = n /\ http.statuses[n] < 400

\* C15: _http_post_with_retry ends after 1 to 3 POSTs; attempt k+1 is made only
\* after attempt k returned a status >= 500 with k < 3, and after a sleep of
\* 0.5 * 2^(k-1) seconds; a status below 500 is returned at once; send_text
\* raises for a final status >= 400, and an exception of the POST leaves
\* send_text without another attempt.
C15_BoundedRetry ==
  /\ []RetryShape
  /\ (http.pc = "post") ~> (http.pc = "done")

\* three 5xx responses: two sleeps of 0.5 s and 1.0 s, then HTTPError
C15_Witness ==
  /\ http.pc = "done"
  /\ http.attempts = 3
  /\ Len(http.statuses) = 3
  /\ \A k \in 1..3 : http.statuses[k] >= 500
  /\ http.sleeps = <<50, 100>>
  /\ http.result = "HTTPError"

\* the record get_session returned carries exactly what `data` held
SameSession(result, data) ==
  /\ result.last_intent = data.last_intent
  /\ result.last_reply = data.last_reply
  /\ result.escalation = data.escalation
  /\ result.window_24h = data.window_24h
  /\ DOMAIN result.attributes = DOMAIN data.attributes
  /\ \A key \in DOMAIN data.attributes :
       PyEq(result.attributes[key], data.attributes[key])

\* C16: after any sequence of put_session calls, get_session(sender) returns
\* nothing for a sender that never wrote, and otherwise a record whose
\* last_intent, last_reply, escalation, window flag and attributes are those
\* of the sender's most recent put_session, with no attribute key of an
\* earlier write left over; the record is returned for as long as its expiry
\* has not passed.
C16_LastWriteWins ==
  storeCase.op = "get" =>
    LET w == storeCase.written[storeCase.wa_id]
        r == storeCase.result
    IN  /\ ~w.present => ~r.present
        /\ r.present => w.present /\ r.wa_id = storeCase.wa_id /\ SameSession(r, w.data)
        /\ (w.present /\ ~(w.at + SESSION_TTL_HOURS < clock)) => r.present

\* a read after two writes by the same sender: the key `foo` of the earlier
\* write is gone, and the number written as 1.0 is read back
C16_Witness ==
  /\ storeCase.op = "get"
  /\ storeCase.result.present
  /\ "foo" \in storeCase.written[storeCase.wa_id].keys
  /\ DOMAIN storeCase.result.attributes = {"bedrock_confidence"}
  /\ storeCase.result.attributes.bedrock_confidence = PyInt(100)
  /\ storeCase.result.escalation

\* C17: every stored session item carries an expiry of its write instant plus
\* 72 hours, and get_session returns no record whose expiry has passed.
C17_ExpiredNeverReturned ==
  /\ \A wa_id \in StoreSenders :
       _session_key(wa_id) \in DOMAIN table =>
         table[_session_key(wa_id)].ttl =
           storeCase.written[wa_id].at + SESSION_TTL_HOURS
  /\ (storeCase.op = "get" /\ storeCase.result.present) =>
       ~Expired(table[_session_key(storeCase.wa_id)], clock)

\* a read, 96 hours after the sender's only write, that returns the record
C17_Witness ==
  /\ storeCase.op = "get"
  /\ storeCase.result.present
  /\ storeCase.written[storeCase.wa_id].at = 0
  /\ clock = 96
  /\ table[_session_key(storeCase.wa_id)].ttl = 72

\* the request is a verification handshake that must succeed
Handshake(req) ==
  /\ req.method = "GET"
  /\ req.query.mode = "subscribe"
  /\ req.query.verify_token = ConfiguredVerifyToken

\* C18: a GET whose query has hub.mode = "subscribe" and hub.verify_token equal
\* to the configured secret is answered 200 with hub.challenge as the body,
\* and a GET with another mode or another token is not.
C18_VerificationHandshake ==
  (turn.pc = "done" /\ turn.request.method = "GET") =>
    (Handshake(turn.request) <=>
       (turn.status = 200 /\ turn.body = turn.request.query.challenge))

\* a well-formed handshake answered 405
C18_Witness ==
  /\ turn.pc = "done"
  /\ Handshake(turn.request)
  /\ turn.request.route = "/webhook"
  /\ turn.status = 405
  /\ turn.body = "Method Not Allowed"

\* the sender of a JSON webhook: contacts[0].wa_id, else the message's `from`
WebhookSender(values, message) ==
  IF values[message.value].contacts # <<>>
  THEN values[message.value].contacts[1]
  ELSE message.from

\* C19: a POST with a JSON webhook body is normalised to its first text message
\* with a non-empty body and run through the pipeline: for a faq text the
\* generation collaborator receives the message text, the reply is sent to
\* the sender, and a session with last_intent faq and escalation false is
\* stored under user#<sender>.
C19_JsonWebhookRunsPipeline ==
  (turn.pc = "done" /\ turn.request.method = "POST" /\ turn.request.route = "/webhook") =>
    LET message == first_text_message(turn.request.values)
        sender  == WebhookSender(turn.request.values, message)
    IN  (message.present /\ classify(message.body).intent = "faq") =>
          /\ turn.text = message.body
          /\ turn.gen_calls = 1
          /\ turn.sent # <<>>
          /\ \A i \in DOMAIN turn.sent : turn.sent[i].to = sender
          /\ _session_key(sender) \in DOMAIN table
          /\ table[_session_key(sender)].last_intent = "faq"
          /\ ~table[_session_key(sender)].escalation

\* a JSON webhook with a faq text answered "ignored", with no call made
C19_Witness ==
  /\ turn.pc = "done"
  /\ turn.request.method = "POST"
  /\ turn.request.route = "/webhook"
  /\ first_text_message(turn.request.values).present
  /\ first_text_message(turn.request.values).body = "Apa jam buka toko?"
  /\ turn.status = 200
  /\ turn.body = IgnoredBody
  /\ turn.calls = <<>>
  /\ turn.sent = <<>>
  /\ table = <<>>

\* the interaction carries an option with a recognised name and a value
HasQuestionOption(req) ==
  \E i \in DOMAIN req.options :
    Lower(req.options[i].name) \in OptionNames /\ req.options[i].value # ""

\* C20: for an authenticated interaction, type 1 yields {type: 1}; type 2 with
\* a recognised command name and an option with a recognised name (whatever
\* its case) and a non-empty value yields {type: 5} after exactly one
\* scheduling attempt; every other interaction yields a type-4 message with a
\* content and schedules no task.
C20_InteractionResponses ==
  (turn.pc = "done" /\ turn.request.route = "/discord" /\ turn.status = 200) =>
    LET req == turn.request.interaction
    IN  IF req.type = 1 THEN turn.ack = 1 /\ turn.calls = <<>>
        ELSE IF req.type = 2 /\ Lower(req.name) \in CommandNames /\ HasQuestionOption(req)
          THEN turn.ack = 5 /\ turn.calls = <<"invoke">>
        ELSE turn.ack = 4 /\ turn.body # "" /\ turn.calls = <<>> /\ turn.scheduled = <<>>

\* a command whose first recognised option is empty and whose second one
\* carries the question: answered with the usage hint
C20_Witness ==
  /\ turn.pc = "done"
  /\ turn.request.route = "/discord"
  /\ turn.status = 200
  /\ turn.request.interaction.options = <<Option("q", ""), Option("text", "halo")>>
  /\ turn.ack = 4
  /\ turn.body = "Masukkan pertanyaan setelah /chat."
  /\ turn.scheduled = <<>>

\* C21: a form-channel message with a media count above 0, whatever its text,
\* is answered 200 "ignored" and reaches neither classification, the session
\* store, generation nor the outbound send; a media count that is missing or
\* not a number counts as 0, so that message runs the pipeline.
C21_MediaIgnored ==
  (turn.request.route = "/twilio" /\ turn.parsed) =>
    LET payload == _parse_twilio_payload(turn.request.form)
    IN  /\ payload.num_media > 0 =>
             /\ NoSideEffect(turn)
             /\ ~BadSignature(turn) => turn.status = 200 /\ turn.body = IgnoredBody
        /\ (turn.request.form.NumMedia \in {"", "x"} /\ ~BadSignature(turn)) =>
             /\ payload.num_media = 0
             /\ turn.calls # <<>>
             /\ turn.calls[1] = "classify"
             /\ turn.text = turn.request.form.Body

\* a signed message with two media and a question: ignored
C21_Witness ==
  /\ turn.request.route = "/twilio"
  /\ turn.request.form.NumMedia = "2"
  /\ turn.request.form.Body = "Apa jam buka toko?"
  /\ turn.signature = "valid"
  /\ turn.status = 200
  /\ turn.body = IgnoredBody
  /\ turn.calls = <<>>

\* call `first` comes before call `second` wherever `second` is made
CalledBefore(calls, first, second) ==
  \A i \in DOMAIN calls :
    calls[i] = second => \E j \in 1..(i - 1) : calls[j] = first

\* C22: on the form channel a turn's session record is written (put_session)
\* before its reply is dispatched (send_text), after classification,
\* generation and the guardrail.
C22_PersistBeforeDispatch ==
  turn.path = "twilio" =>
    /\ CalledBefore(turn.calls, "put_session", "send_text")
    /\ CalledBefore(turn.calls, "guard", "put_session")
    /\ CalledBefore(turn.calls, "classify", "guard")

\* a form-channel turn that sent its reply and then wrote the session
C22_Witness ==
  /\ turn.path = "twilio"
  /\ turn.pc = "done"
  /\ turn.calls = <<"classify", "get_session", "generate", "guard", "send_text", "put_session">>
  /\ turn.sent # <<>>
  /\ turn.writes # <<>>

\* the invocation runs the pipeline
PipelinePaths == {"twilio", "chat", "followup"}

\* the collaborator calls of a complete turn, in the order of the code
TurnCalls(path, intent) ==
  <<"classify", "get_session">>
    \o (IF intent \in {"order_status", "out_of_scope"} THEN <<>> ELSE <<"generate">>)
    \o <<"guard">>
    \o (IF path = "twilio" THEN <<"send_text">> ELSE <<>>)
    \o <<"put_session">>
    \o (IF path = "followup" THEN <<"post">> ELSE <<>>)

\* C23 as stated: the steps of an invocation come in the order classification,
\* generation, guardrail, session read, session write.
C23_ReadAfterGuardrail ==
  turn.path \in PipelinePaths =>
    /\ CalledBefore(turn.calls, "classify", "generate")
    /\ CalledBefore(turn.calls, "guard", "get_session")
    /\ CalledBefore(turn.calls, "get_session", "put_session")

\* C23 (amended): an invocation makes its calls one after the other in the
\* order classification, session read, generation, guardrail, (send on the
\* form channel), session write, with at most one generation call, one
\* session read and one session write; generation is called only when the
\* intent is neither order_status nor out_of_scope.
C23_SequentialSteps ==
  turn.path \in PipelinePaths =>
    LET expected == TurnCalls(turn.path, turn.intent)
    IN  /\ Len(turn.calls) <= Len(expected)
        /\ turn.calls = SubSeq(expected, 1, Len(turn.calls))
        /\ turn.gen_calls <= 1
        /\ turn.gen_calls = 1 => turn.intent \notin {"order_status", "out_of_scope"}
        /\ Len(turn.writes) <= 1

\* a complete faq turn of the chat endpoint
C23_Witness ==
  /\ turn.path = "chat"
  /\ turn.pc = "done"
  /\ turn.calls = <<"classify", "get_session", "generate", "guard", "put_session">>
  /\ turn.gen_calls = 1
  /\ turn.session.present

\* C24 as stated: on every path and for every intent the confidence passed to
\* guard.apply does not exceed the confidence nlu.classify returned.
C24_ConfidenceBelowClassifier ==
  (turn.path \in PipelinePaths /\ turn.guard_calls > 0) =>
    turn.model_confidence <= turn.class_confidence

\* C24 (amended): for faq and out_of_scope the confidence passed to guard.apply
\* does not exceed the classifier's; for order_status it is 0.90, above the
\* classifier's 0.85.
C24_ConfidenceBelowClassifierButOrders ==
  (turn.path \in PipelinePaths /\ turn.guard_calls > 0) =>
    IF turn.intent = "order_status"
    THEN turn.model_confidence = 90 /\ turn.class_confidence = 85
    ELSE turn.model_confidence <= turn.class_confidence

\* an out_of_scope turn of the chat endpoint: 0.30 reaches the guardrail
C24_Witness ==
  /\ turn.path = "chat"
  /\ turn.guard_calls > 0
  /\ turn.intent = "out_of_scope"
  /\ turn.model_confidence = 30
  /\ turn.class_confidence = 30

\* C25 as stated: once the stored session of a sender has escalation true, it
\* keeps it after every later turn of that sender.
C25_EscalationSticky ==
  [][\A k \in DOMAIN table :
       table[k].escalation => (k \in DOMAIN table' /\ table'[k].escalation)]_vars

\* C25: after a turn's put_session the sender's stored session is the item of
\* that turn, and its escalation is the turn's own flag (the guard result's
\* escalate, or the intent being out_of_scope): true after an escalating turn,
\* false after a later turn that does not escalate, whatever the session read
\* at the start of the turn held.
C25_EscalationOfLastTurn ==
  turn.writes # <<>> =>
    LET k == _session_key(turn.user)
    IN  /\ k \in DOMAIN table
        /\ table[k] = turn.writes[1]
        /\ table[k].escalation = (turn.escalate \/ turn.intent = "out_of_scope")

\* a turn that does not escalate has overwritten a session whose escalation
\* was true
C25_Witness ==
  /\ turn.writes # <<>>
  /\ turn.session.present
  /\ turn.session.escalation
  /\ ~turn.escalate
  /\ turn.intent # "out_of_scope"
  /\ ~table[_session_key(turn.user)].escalation

\* the numeric scores of a response's citation sources
NumericScores(citations) ==
  UNION { { citations[i][j].score :
              j \in { k \in DOMAIN citations[i] : citations[i][k].numeric } } :
          i \in DOMAIN citations }

\* C28: answer_with_rag sets the confidence to 0 when the response has no
\* citations, to 0.75 when it has citations, none with a numeric score, and
\* answer text was produced, and otherwise to the maximum numeric score over
\* all citation sources.
C28_RagConfidence ==
  ragCase.stage = "answered" =>
    LET citations == ragCase.response.citations
        scores    == NumericScores(citations)
    IN  ragCase.answer.confidence =
          IF citations = <<>> THEN 0
          ELSE IF scores = {} /\ Strip(ragCase.response.text) # "" THEN 75
          ELSE IF scores = {} THEN 0
          ELSE CHOOSE m \in scores : \A n \in scores : n <= m

\* a response with answer text and no citations has been answered
C28_Witness ==
  /\ ragCase.stage = "answered"
  /\ ragCase.response.citations = <<>>
  /\ Strip(ragCase.response.text) # ""
  /\ ragCase.answer.confidence = 75

\* C26: under every interleaving of two concurrent turns, the stored record of
\* a sender equals in its entirety the item of the put_session that executed
\* last for that sender, with no field taken from the other turn, and a turn
\* of another sender leaves it as it is.
C26_LastWriterWins ==
  \A u \in DOMAIN racers.last :
    /\ _session_key(u) \in DOMAIN table
    /\ table[_session_key(u)] = racers.last[u].item
    /\ racers.last[u].item.pk = _session_key(u)

\* both turns of one sender read the session before either wrote it, both
\* wrote different items, and the record is the item of the second write;
\* a turn of another sender has written meanwhile
C26_Witness ==
  LET a == racers.running["a"]
      b == racers.running["b"]
  IN  /\ a.t.pc = "done" /\ b.t.pc = "done"
      /\ a.t.user = b.t.user
      /\ ~a.t.session.present /\ ~b.t.session.present
      /\ a.t.writes # b.t.writes
      /\ racers.last[a.t.user].by = "b"
      /\ table[_session_key(a.t.user)] = b.t.writes[1]
      /\ table[_session_key(a.t.user)] # a.t.writes[1]
      /\ \E u \in DOMAIN racers.last :
           u # a.t.user /\ table[_session_key(u)] = racers.last[u].item

\* C27: sender identifiers are channel-scoped: a turn of one channel never
\* reads, and never overwrites, a session record that a turn of another
\* channel wrote, even when the two identifier strings are equal.
C27_ChannelScoped ==
  \A p \in Invocations :
    LET r == racers.running[p]
    IN  /\ r.read_from \in {"", r.t.path}
        /\ r.replaced \in {"", r.t.path}

\* a turn of the chat endpoint has read and then replaced the session that a
\* form-channel turn wrote for the sender with the same identifier
C27_Witness ==
  \E p \in Invocations :
    LET r == racers.running[p]
    IN  /\ r.t.path = "chat"
        /\ r.t.pc = "done"
        /\ r.t.session.present
        /\ r.read_from = "twilio"
        /\ r.replaced = "twilio"
        /\ table[_session_key(r.t.user)] = r.t.writes[1]

\* what Phase 1 has done when it returns: at most the hand-over of the task
\* to the asynchronous invoker
PhaseOneOnly(t) ==
  /\ t.pc = "done"
  /\ Range(t.calls) \subseteq {"invoke"}
  /\ t.intent = "none"
  /\ t.gen_calls = 0
  /\ t.guard_calls = 0
  /\ ~t.session.present
  /\ t.sent = <<>>
  /\ t.writes = <<>>
  /\ t.post = <<>>

\* C29: Phase 1 of the interactive channel runs no business logic: for every
\* request type and outcome it has not classified the question, called the
\* generation collaborator, read or written the session store, or posted to
\* the callback URL, and the step leaves the session table and the callback
\* POSTs as they were.
C29_PhaseOneNoBusinessLogic ==
  /\ [](turn.path = "discord" => PhaseOneOnly(turn))
  /\ [][turn'.path = "discord" => (table' = table /\ posts' = posts)]_vars

\* Phase 1 has deferred a chat command of a user whose session is stored, and
\* handed the task over
C29_Witness ==
  /\ turn.path = "discord"
  /\ turn.ack = 5
  /\ turn.scheduled # <<>>
  /\ _session_key(turn.user) \in DOMAIN table

\* C30: every text delivered to a user (the send_text body, the chat
\* endpoint's answer, the content of the Phase 2 callback POST) is non-empty
\* after trimming; when the turn's escalate flag is true it is
\* LOW_CONFIDENCE_RESPONSE or DENYLIST_RESPONSE, and when the flag is false it
\* is the trimmed draft reply.
C30_DeliveredText ==
  \A d \in Delivered(turn) :
    /\ Strip(d) # ""
    /\ turn.escalate => d \in {LOW_CONFIDENCE_RESPONSE, DENYLIST_RESPONSE}
    /\ ~turn.escalate => d = Strip(turn.reply_text)

\* an empty generated answer reached the guardrail on the form channel; the
\* turn escalated and the low-confidence fallback was sent in its place
C30_Witness ==
  /\ turn.path = "twilio"
  /\ turn.gen_calls = 1
  /\ turn.has_answer
  /\ Strip(turn.reply_text) = ""
  /\ turn.escalate
  /\ turn.sent # <<>>
  /\ turn.sent[1].body = LOW_CONFIDENCE_RESPONSE

====
